---- MODULE Spec2Model ----
(***************************************************************************)
(* Model of the documentation post-processing pipeline of                  *)
(* doc-tools/DocPostProcessor.py (DocumentCleaner, DocumentStructurer,     *)
(* DocumentSorter, DocumentPostProcessor), of the MCP vector server of     *)
(* vector-server/src/mcp_vector_server/simple_server.py and of the crawl   *)
(* loop of doc-tools/DocScraper.py.  Each program has its own              *)
(* specification; the variables of the other programs stay as they are     *)
(* after construction.                                                     *)
(*                                                                         *)
(* Text is a sequence of atoms (integers).  An atom is either one of the   *)
(* markers below (a newline, a space, a fence of three backticks, ...) or  *)
(* a positive integer standing for one run of ordinary non-blank           *)
(* characters; atom k is a different piece of text from atom j.            *)
(* chunk_id (an md5 prefix of the content) is not modelled.                *)
(***************************************************************************)
EXTENDS Integers, Sequences, FiniteSets, TLC

VARIABLES
    \* DocumentStructurer
    chunk_size,     \* DocumentStructurer.chunk_size
    chunk_overlap,  \* DocumentStructurer.chunk_overlap
    sdoc,           \* the content argument of the structure_document call
    smeta,          \* the metadata argument of the structure_document call
    chunks,         \* the list structure_document returned
    structured,     \* TRUE once structure_document has returned
    \* DocumentCleaner
    raw,                \* the content argument of the clean_document call
    preserve_structure, \* the preserve_structure argument of that call
    cleaned,            \* the text clean_document returned
    clean_done,         \* TRUE once clean_document has returned
    \* DocumentSorter.classify_document
    has_client,     \* self.client is not None
    doc_title,      \* doc.title
    doc_url,        \* doc.original_url
    cpc,            \* where the classify_document call stands
    attempt,        \* tenacity's attempt number of the call
    api_calls,      \* calls of client.chat.completions.create made so far
    last_outcome,   \* how the last external call ended
    via,            \* the return statement that produced category
    category,       \* the value classify_document returned
    \* DocumentSorter.sort_documents
    documents,      \* the list passed to sort_documents, as the call left it
    dep_graph,      \* the edges of the graph create_dependency_graph built
    sorted_docs,    \* the list sort_documents returned
    sort_pc,        \* "idle", "returned" or "raised"
    \* DocumentPostProcessor.process_all_documents
    recursive,      \* the recursive argument of the call
    flatten_output, \* the flatten_output argument of the call
    md_files,       \* the files the call found, in the order of the glob
    next_file,      \* the index in md_files of the next loop iteration
    processed_docs, \* self.processed_docs
    source_folders, \* the keys of source_folders, in insertion order
    errors,         \* the files whose exception the loop logged
    ppc,            \* "idle", "files", "saving", "returned" or "raised"
    summary,        \* processing_summary.json, the value the call returns
    written,        \* per document, the cleaned file and chunk directory written
    vector_index,   \* vector_db_index.json
    calls,          \* the number of calls of process_all_documents on the object
    \* mcp_vector_server.simple_server
    DATABASE,               \* the global DATABASE
    AGENT_OBSERVATIONS,     \* the global AGENT_OBSERVATIONS
    AGENT_METRICS,          \* the global AGENT_METRICS
    COORDINATION_PATTERNS,  \* the global COORDINATION_PATTERNS
    request,        \* the last call: handle_request's request_data, or a tool's arguments
    last_response,  \* how that call ended, and the value it returned
    \* DocumentationScraper.scrape_documentation
    site,           \* the href attributes of each page of the crawled site
    max_pages,      \* the max_pages argument of the call
    visited_urls,   \* self.visited_urls
    failed_urls,    \* self.failed_urls
    urls_to_crawl,  \* the local urls_to_crawl
    should_stop,    \* self.should_stop
    tasks,          \* the scrape_page tasks of the batch, in the order of gather
    saved_pages,    \* the URLs whose page _save_content has written
    scrape_summary, \* _scrape_summary.json
    spc             \* "idle", "loop", "gather" or "done"

svars == <<chunk_size, chunk_overlap, sdoc, smeta, chunks, structured>>

cvars == <<raw, preserve_structure, cleaned, clean_done>>

kvars == <<has_client, doc_title, doc_url, cpc, attempt, api_calls, last_outcome, via,
           category>>

ovars == <<documents, dep_graph, sorted_docs, sort_pc>>

pvars == <<recursive, flatten_output, md_files, next_file, processed_docs, source_folders,
           errors, ppc, summary, written, vector_index, calls>>

vvars == <<DATABASE, AGENT_OBSERVATIONS, AGENT_METRICS, COORDINATION_PATTERNS, request,
          last_response>>

xvars == <<site, max_pages, visited_urls, failed_urls, urls_to_crawl, should_stop, tasks,
           saved_pages, scrape_summary, spc>>

vars == <<svars, cvars, kvars, ovars, pvars, vvars, xvars>>

(***************************************************************************)
(* Bounds of the model.                                                    *)
(***************************************************************************)
MaxLines == 4
MaxChunkSize == 2
MaxChunkOverlap == 2
MaxRawLen == 5
MaxTitleParts == 2
MaxDocs == 2
MaxFiles == 2
MaxCalls == 2
MaxStored == 2
MaxPages == 2

(***************************************************************************)
(* Atoms.                                                                  *)
(***************************************************************************)
FENCE == 0
NL == -1
SP == -2
HASH == -3
STAR == -4
NAV == -5
INTRO == -6
MaxHeaderLevel == 5

Placeholder(i) == -(100 + i)

IsSpace(a) == a \in {NL, SP}

Min(a, b) == IF a <= b THEN a ELSE b

(***************************************************************************)
(* str.split(sep), sep.join(list), str.split(), str.strip(),               *)
(* str.replace(old, new), re.findall(r'```[\s\S]*?```', s)                 *)
(***************************************************************************)
RECURSIVE SplitOnFrom(_, _, _, _)
SplitOnFrom(s, sep, i, cur) ==
    IF i > Len(s) THEN <<cur>>
    ELSE IF s[i] = sep THEN <<cur>> \o SplitOnFrom(s, sep, i + 1, <<>>)
    ELSE SplitOnFrom(s, sep, i + 1, Append(cur, s[i]))

SplitOn(s, sep) == SplitOnFrom(s, sep, 1, <<>>)

RECURSIVE JoinWith(_, _)
JoinWith(list, sep) ==
    IF list = <<>> THEN <<>>
    ELSE IF Len(list) = 1 THEN list[1]
    ELSE list[1] \o <<sep>> \o JoinWith(Tail(list), sep)

RECURSIVE SplitWordsFrom(_, _, _)
SplitWordsFrom(s, i, cur) ==
    IF i > Len(s) THEN (IF cur = <<>> THEN <<>> ELSE <<cur>>)
    ELSE IF IsSpace(s[i])
         THEN (IF cur = <<>> THEN <<>> ELSE <<cur>>) \o SplitWordsFrom(s, i + 1, <<>>)
         ELSE SplitWordsFrom(s, i + 1, Append(cur, s[i]))

SplitWords(s) == SplitWordsFrom(s, 1, <<>>)

RECURSIVE LStrip(_)
LStrip(s) == IF s # <<>> /\ IsSpace(s[1]) THEN LStrip(Tail(s)) ELSE s

RECURSIVE RStrip(_)
RStrip(s) ==
    IF s # <<>> /\ IsSpace(s[Len(s)]) THEN RStrip(SubSeq(s, 1, Len(s) - 1)) ELSE s

Strip(s) == RStrip(LStrip(s))

StartsAt(s, i, pat) ==
    /\ i + Len(pat) - 1 <= Len(s)
    /\ SubSeq(s, i, i + Len(pat) - 1) = pat

RECURSIVE ReplaceFrom(_, _, _, _, _)
ReplaceFrom(s, old, new, i, count) ==
    IF i > Len(s) THEN <<>>
    ELSE IF count # 0 /\ old # <<>> /\ StartsAt(s, i, old)
         THEN new \o ReplaceFrom(s, old, new, i + Len(old), count - 1)
         ELSE <<s[i]>> \o ReplaceFrom(s, old, new, i + 1, count)

ReplaceAll(s, old, new) == ReplaceFrom(s, old, new, 1, -1)

ReplaceFirst(s, old, new) == ReplaceFrom(s, old, new, 1, 1)

NextFence(s, i) ==
    IF \E j \in i..Len(s) : s[j] = FENCE
    THEN CHOOSE j \in i..Len(s) : s[j] = FENCE /\ \A k \in i..(j - 1) : s[k] # FENCE
    ELSE 0

RECURSIVE FindCodeBlocksFrom(_, _)
FindCodeBlocksFrom(s, i) ==
    LET open == NextFence(s, i)
        close == IF open = 0 THEN 0 ELSE NextFence(s, open + 1)
    IN  IF open = 0 \/ close = 0 THEN <<>>
        ELSE <<SubSeq(s, open, close)>> \o FindCodeBlocksFrom(s, close + 1)

FindCodeBlocks(s) == FindCodeBlocksFrom(s, 1)

Contains(s, pat) == \E i \in 1..(Len(s) + 1) : StartsAt(s, i, pat)

Get(m, k, default) == IF k \in DOMAIN m THEN m[k] ELSE default

(***************************************************************************)
(* DocumentStructurer._parse_sections                                      *)
(***************************************************************************)
MatchHeader(line, level) ==
    /\ Len(line) >= level + 2
    /\ \A k \in 1..level : line[k] = HASH
    /\ line[level + 1] = SP

RECURSIVE HeaderLevelFrom(_, _)
HeaderLevelFrom(line, level) ==
    IF level > MaxHeaderLevel THEN 0
    ELSE IF MatchHeader(line, level) THEN level
    ELSE HeaderLevelFrom(line, level + 1)

HeaderLevel(line) == HeaderLevelFrom(line, 1)

HeaderTitle(line, level) == SubSeq(line, level + 2, Len(line))

EmptyMeta == [k \in {} |-> 0]

IntroductionSection ==
    [level |-> 0, title |-> <<INTRO>>, content |-> <<>>, metadata |-> EmptyMeta]

NewSection(level, title) ==
    [level |-> level, title |-> title, content |-> <<>>,
     metadata |-> [section_level |-> level, section_title |-> title]]

CloseSection(sections, cur) ==
    IF cur.content # <<>>
    THEN Append(sections, [cur EXCEPT !.content = JoinWith(cur.content, NL)])
    ELSE sections

RECURSIVE ParseLines(_, _, _, _)
ParseLines(lines, i, sections, cur) ==
    IF i > Len(lines) THEN CloseSection(sections, cur)
    ELSE LET level == HeaderLevel(lines[i])
         IN  IF level # 0
             THEN ParseLines(lines, i + 1, CloseSection(sections, cur),
                             NewSection(level, HeaderTitle(lines[i], level)))
             ELSE ParseLines(lines, i + 1, sections,
                             [cur EXCEPT !.content = Append(@, lines[i])])

ParseSections(content) == ParseLines(SplitOn(content, NL), 1, <<>>, IntroductionSection)

(***************************************************************************)
(* DocumentStructurer._create_semantic_chunks                              *)
(***************************************************************************)
\* Python's current_chunk[-n:]; for n = 0 the slice [-0:] is the whole list.
LastWords(words, n) ==
    IF n = 0 THEN words ELSE SubSeq(words, Len(words) - n + 1, Len(words))

RECURSIVE RestoreCodeBlocks(_, _, _)
RestoreCodeBlocks(text, code_blocks, i) ==
    IF i > Len(code_blocks) THEN text
    ELSE RestoreCodeBlocks(ReplaceAll(text, <<Placeholder(i - 1)>>, code_blocks[i]),
                           code_blocks, i + 1)

TextChunk(current_chunk, current_size, code_blocks, section_metadata, position) ==
    [content  |-> RestoreCodeBlocks(JoinWith(current_chunk, SP), code_blocks, 1),
     metadata |-> ("type" :> "text") @@ section_metadata,
     position |-> position,
     tokens   |-> current_size,
     parent_doc |-> ""]

CodeChunk(code_block, section_metadata, position) ==
    [content  |-> code_block,
     metadata |-> ("type" :> "code") @@ section_metadata,
     position |-> position,
     tokens   |-> Len(SplitWords(code_block)),
     parent_doc |-> ""]

\* The loop over code_blocks: st = [content, chunks].
RECURSIVE ExtractCodeBlocks(_, _, _, _)
ExtractCodeBlocks(code_blocks, i, st, section_metadata) ==
    IF i > Len(code_blocks) THEN st
    ELSE ExtractCodeBlocks(code_blocks, i + 1,
            [content |-> ReplaceAll(st.content, code_blocks[i],
                                    <<Placeholder(Len(st.chunks))>>),
             chunks  |-> Append(st.chunks,
                                CodeChunk(code_blocks[i], section_metadata,
                                          Len(st.chunks)))],
            section_metadata)

\* The loop over words, then the final chunk.
RECURSIVE ChunkWords(_, _, _, _, _, _, _, _)
ChunkWords(words, i, current_chunk, current_size, out, code_blocks, section_metadata, cfg) ==
    IF i > Len(words)
    THEN IF current_chunk # <<>>
         THEN Append(out, TextChunk(current_chunk, current_size, code_blocks,
                                    section_metadata, Len(out)))
         ELSE out
    ELSE LET cc == Append(current_chunk, words[i])
             cs == current_size + 1
         IN  IF cs >= cfg.chunk_size
             THEN LET overlap_size == Min(cfg.chunk_overlap, Len(cc))
                  IN  ChunkWords(words, i + 1, LastWords(cc, overlap_size), overlap_size,
                                 Append(out, TextChunk(cc, cs, code_blocks,
                                                       section_metadata, Len(out))),
                                 code_blocks, section_metadata, cfg)
             ELSE ChunkWords(words, i + 1, cc, cs, out, code_blocks, section_metadata, cfg)

CreateSemanticChunks(content, section_metadata, cfg) ==
    IF Strip(content) = <<>> THEN <<>>
    ELSE LET code_blocks == FindCodeBlocks(content)
             st == ExtractCodeBlocks(code_blocks, 1,
                                     [content |-> content, chunks |-> <<>>],
                                     section_metadata)
         IN  ChunkWords(SplitWords(st.content), 1, <<>>, 0, st.chunks,
                        code_blocks, section_metadata, cfg)

(***************************************************************************)
(* DocumentCleaner.clean_document.  Of the boilerplate patterns, the       *)
(* literal r'Navigation' (atom NAV) is the one the atom alphabet can       *)
(* spell; the other header, footer and navigation patterns need link or    *)
(* heading text that no modelled input contains, so they match nothing.    *)
(***************************************************************************)
RemoveAtom(s, a) == SelectSeq(s, LAMBDA x : x # a)

\* The end of the maximal run of atoms of set A that starts at i (i - 1 if none).
RECURSIVE RunEnd(_, _, _)
RunEnd(s, i, A) == IF i <= Len(s) /\ s[i] \in A THEN RunEnd(s, i + 1, A) ELSE i - 1

\* re.sub of a run of at least min atoms a by keep atoms a.
RECURSIVE CollapseRunsFrom(_, _, _, _, _)
CollapseRunsFrom(s, a, min, keep, i) ==
    IF i > Len(s) THEN <<>>
    ELSE LET e == RunEnd(s, i, {a})
         IN  IF e - i + 1 >= min
             THEN [k \in 1..keep |-> a] \o CollapseRunsFrom(s, a, min, keep, e + 1)
             ELSE IF e >= i
                  THEN SubSeq(s, i, e) \o CollapseRunsFrom(s, a, min, keep, e + 1)
                  ELSE <<s[i]>> \o CollapseRunsFrom(s, a, min, keep, i + 1)

CollapseNewlines(s) == CollapseRunsFrom(s, NL, 3, 2, 1)

CollapseSpaces(s) == CollapseRunsFrom(s, SP, 2, 1, 1)

AtLineStart(s, i) == i = 1 \/ s[i - 1] = NL

AtLineEnd(s, i) == i > Len(s) \/ s[i] = NL

\* re.sub(r'^\* *$', '', s, flags=re.MULTILINE)
RECURSIVE RemoveEmptyBulletsFrom(_, _)
RemoveEmptyBulletsFrom(s, i) ==
    IF i > Len(s) THEN <<>>
    ELSE IF /\ AtLineStart(s, i)
            /\ s[i] = STAR
            /\ AtLineEnd(s, RunEnd(s, i + 1, {SP}) + 1)
         THEN RemoveEmptyBulletsFrom(s, RunEnd(s, i + 1, {SP}) + 1)
         ELSE <<s[i]>> \o RemoveEmptyBulletsFrom(s, i + 1)

RemoveEmptyBullets(s) == RemoveEmptyBulletsFrom(s, 1)

LastNewline(s, i, e) ==
    IF \E j \in i..e : s[j] = NL
    THEN CHOOSE j \in i..e : s[j] = NL /\ \A k \in (j + 1)..e : s[k] # NL
    ELSE 0

\* re.sub(r'^\s*\n', '', s, flags=re.MULTILINE)
RECURSIVE RemoveBlankLinesFrom(_, _)
RemoveBlankLinesFrom(s, i) ==
    IF i > Len(s) THEN <<>>
    ELSE LET q == IF AtLineStart(s, i)
                  THEN LastNewline(s, i, RunEnd(s, i, {NL, SP}))
                  ELSE 0
         IN  IF q # 0
             THEN IF q + 1 > Len(s) THEN <<>>
                  ELSE <<s[q + 1]>> \o RemoveBlankLinesFrom(s, q + 2)
             ELSE <<s[i]>> \o RemoveBlankLinesFrom(s, i + 1)

RemoveBlankLines(s) == RemoveBlankLinesFrom(s, 1)

RECURSIVE HideCodeBlocks(_, _, _)
HideCodeBlocks(text, code_blocks, i) ==
    IF i > Len(code_blocks) THEN text
    ELSE HideCodeBlocks(ReplaceFirst(text, code_blocks[i], <<Placeholder(i - 1)>>),
                        code_blocks, i + 1)

PreserveImportantStructure(content) ==
    LET code_blocks == FindCodeBlocks(content)
    IN  RestoreCodeBlocks(RemoveBlankLines(HideCodeBlocks(content, code_blocks, 1)),
                          code_blocks, 1)

CleanDocument(content, preserve) ==
    LET a == RemoveAtom(content, NAV)
        b == CollapseSpaces(CollapseNewlines(a))
        c == RemoveEmptyBullets(b)
    IN  Strip(IF preserve THEN PreserveImportantStructure(c) ELSE c)

(***************************************************************************)
(* DocumentStructurer.structure_document                                   *)
(***************************************************************************)
RECURSIVE SectionChunks(_, _, _)
SectionChunks(sections, i, cfg) ==
    IF i > Len(sections) THEN <<>>
    ELSE CreateSemanticChunks(sections[i].content, sections[i].metadata, cfg)
         \o SectionChunks(sections, i + 1, cfg)

DocLevelMeta(metadata) ==
    [source_url |-> Get(metadata, "url", ""),
     scraped_at |-> Get(metadata, "scraped_at", ""),
     doc_title  |-> Get(metadata, "title", "")]

StructureDocumentFn(content, metadata, cfg) ==
    LET cs == SectionChunks(ParseSections(content), 1, cfg)
    IN  [k \in 1..Len(cs) |->
            [cs[k] EXCEPT !.metadata = DocLevelMeta(metadata) @@ @]]

(***************************************************************************)
(* Inputs of structure_document: documents of up to MaxLines lines.  Line  *)
(* i is a word, a fence, a blank line, or a line of 1, 5 or 6 hashes       *)
(* followed by a space and a word; the word of line i is atom i.           *)
(***************************************************************************)
Hashes(n) == [k \in 1..n |-> HASH]

LineChoices(i) ==
    { <<i>>, <<FENCE>>, <<>> }
    \cup { Hashes(n) \o <<SP, i>> : n \in {1, MaxHeaderLevel, MaxHeaderLevel + 1} }

RECURSIVE LineLists(_)
LineLists(n) ==
    IF n = 0 THEN { <<>> }
    ELSE { Append(p, l) : p \in LineLists(n - 1), l \in LineChoices(n) }

DocsOfLength(n) == { JoinWith(f, NL) : f \in LineLists(n) }

DocMetadataChoices ==
    { EmptyMeta, [url |-> "https://docs/a", title |-> "A", scraped_at |-> "2024-01-01"] }

(***************************************************************************)
(* Strings of the classifier are sequences of one-character strings.       *)
(***************************************************************************)
UpperCase == <<"A", "B", "C", "D", "E", "F", "G", "H", "I", "J", "K", "L", "M", "N", "O", "P", "Q", "R", "S", "T", "U", "V", "W", "X", "Y", "Z">>

LowerCase == <<"a", "b", "c", "d", "e", "f", "g", "h", "i", "j", "k", "l", "m", "n", "o", "p", "q", "r", "s", "t", "u", "v", "w", "x", "y", "z">>

LowerChar(c) ==
    IF \E i \in 1..Len(UpperCase) : UpperCase[i] = c
    THEN LowerCase[CHOOSE i \in 1..Len(UpperCase) : UpperCase[i] = c]
    ELSE c

\* str.lower()
Lower(s) == [i \in 1..Len(s) |-> LowerChar(s[i])]

IsBlankChar(c) == c \in {" ", "\n"}

RECURSIVE LStripChars(_)
LStripChars(s) == IF s # <<>> /\ IsBlankChar(s[1]) THEN LStripChars(Tail(s)) ELSE s

RECURSIVE RStripChars(_)
RStripChars(s) ==
    IF s # <<>> /\ IsBlankChar(s[Len(s)])
    THEN RStripChars(SubSeq(s, 1, Len(s) - 1))
    ELSE s

\* str.strip()
StripChars(s) == RStripChars(LStripChars(s))

(***************************************************************************)
(* DocumentSorter.__init__: the category table, in insertion order.        *)
(***************************************************************************)
CategoryOrder ==
    <<"getting_started", "concepts", "guides", "api_reference", "examples", "advanced", "troubleshooting">>

Categories == { CategoryOrder[i] : i \in 1..Len(CategoryOrder) }

CategoryName ==
    [c \in Categories |-> CASE c = "getting_started" -> <<"g", "e", "t", "t", "i", "n", "g", "_", "s", "t", "a", "r", "t", "e", "d">>
          [] c = "concepts" -> <<"c", "o", "n", "c", "e", "p", "t", "s">>
          [] c = "guides" -> <<"g", "u", "i", "d", "e", "s">>
          [] c = "api_reference" -> <<"a", "p", "i", "_", "r", "e", "f", "e", "r", "e", "n", "c", "e">>
          [] c = "examples" -> <<"e", "x", "a", "m", "p", "l", "e", "s">>
          [] c = "advanced" -> <<"a", "d", "v", "a", "n", "c", "e", "d">>
          [] c = "troubleshooting" -> <<"t", "r", "o", "u", "b", "l", "e", "s", "h", "o", "o", "t", "i", "n", "g">> ]

Keywords ==
    [c \in Categories |-> CASE c = "getting_started" ->
                 <<<<"i", "n", "t", "r", "o", "d", "u", "c", "t", "i", "o", "n">>,
                   <<"q", "u", "i", "c", "k", "s", "t", "a", "r", "t">>,
                   <<"s", "e", "t", "u", "p">>,
                   <<"i", "n", "s", "t", "a", "l", "l", "a", "t", "i", "o", "n">>>>
          [] c = "concepts" ->
                 <<<<"o", "v", "e", "r", "v", "i", "e", "w">>,
                   <<"c", "o", "n", "c", "e", "p", "t", "s">>,
                   <<"a", "r", "c", "h", "i", "t", "e", "c", "t", "u", "r", "e">>,
                   <<"p", "r", "i", "n", "c", "i", "p", "l", "e", "s">>>>
          [] c = "guides" ->
                 <<<<"g", "u", "i", "d", "e">>,
                   <<"t", "u", "t", "o", "r", "i", "a", "l">>,
                   <<"h", "o", "w", "-", "t", "o">>,
                   <<"w", "a", "l", "k", "t", "h", "r", "o", "u", "g", "h">>>>
          [] c = "api_reference" ->
                 <<<<"a", "p", "i">>,
                   <<"r", "e", "f", "e", "r", "e", "n", "c", "e">>,
                   <<"e", "n", "d", "p", "o", "i", "n", "t", "s">>,
                   <<"m", "e", "t", "h", "o", "d", "s">>>>
          [] c = "examples" ->
                 <<<<"e", "x", "a", "m", "p", "l", "e">>,
                   <<"s", "a", "m", "p", "l", "e">>,
                   <<"d", "e", "m", "o">>,
                   <<"c", "o", "d", "e">>>>
          [] c = "advanced" ->
                 <<<<"a", "d", "v", "a", "n", "c", "e", "d">>,
                   <<"o", "p", "t", "i", "m", "i", "z", "a", "t", "i", "o", "n">>,
                   <<"p", "e", "r", "f", "o", "r", "m", "a", "n", "c", "e">>,
                   <<"s", "c", "a", "l", "i", "n", "g">>>>
          [] c = "troubleshooting" ->
                 <<<<"t", "r", "o", "u", "b", "l", "e", "s", "h", "o", "o", "t", "i", "n", "g">>,
                   <<"e", "r", "r", "o", "r", "s">>,
                   <<"d", "e", "b", "u", "g", "g", "i", "n", "g">>,
                   <<"i", "s", "s", "u", "e", "s">>>> ]

TitleFragments ==
    { <<"S", "e", "t", "u", "p">>,
      <<"A", "P", "I", " ", "R", "e", "f", "e", "r", "e", "n", "c", "e">>,
      <<"R", "a", "p", "i", "d">>,
      <<"E", "r", "r", "o", "r", "s">>,
      <<"d", "e", "m", "o">>,
      <<"O", "v", "e", "r", "v", "i", "e", "w">>,
      <<"T", "u", "t", "o", "r", "i", "a", "l">>,
      <<"S", "c", "a", "l", "i", "n", "g">>,
      <<"N", "o", "t", "e", "s">> }

UrlChoices ==
    { <<>>,
      <<"/", "d", "o", "c", "s", "/", "q", "u", "i", "c", "k", "s", "t", "a", "r", "t">>,
      <<"/", "d", "o", "c", "s", "/", "A", "P", "I", "/", "m", "e", "t", "h", "o", "d", "s">>,
      <<"/", "b", "l", "o", "g", "/", "p", "o", "s", "t">> }

ResponseChoices ==
    { <<"g", "u", "i", "d", "e", "s">>,
      <<" ", "A", "P", "I", "_", "R", "e", "f", "e", "r", "e", "n", "c", "e", "\n">>,
      <<"T", "u", "t", "o", "r", "i", "a", "l", "s">>,
      <<>> }

(***************************************************************************)
(* DocumentSorter._rule_based_classification.  A title or URL is           *)
(* [isstr, chars]: frontmatter may set either to a value that is not a     *)
(* string (title: 2024), on which .lower() raises AttributeError.          *)
(***************************************************************************)
Str(chars) == [isstr |-> TRUE, chars |-> chars]

NotAString == [isstr |-> FALSE, chars |-> <<>>]

Returned(value) == [raised |-> FALSE, value |-> value]

Raised == [raised |-> TRUE, value |-> ""]

\* KeywordHit without the check of the URL
KeywordHitTitleOnly(keyword, title_lower, url_lower) ==
    Contains(title_lower, keyword)

KeywordHit(keyword, title_lower, url_lower) ==
    Contains(title_lower, keyword) \/ Contains(url_lower, keyword)

\* AnyKeywordHit for which every keyword list hits
AnyKeywordHitAlways(keywords, j, title_lower, url_lower) == TRUE

RECURSIVE AnyKeywordHit(_, _, _, _)
AnyKeywordHit(keywords, j, title_lower, url_lower) ==
    IF j > Len(keywords) THEN FALSE
    ELSE IF KeywordHit(keywords[j], title_lower, url_lower) THEN TRUE
    ELSE AnyKeywordHit(keywords, j + 1, title_lower, url_lower)

RECURSIVE FirstCategoryFrom(_, _, _)
FirstCategoryFrom(i, title_lower, url_lower) ==
    IF i > Len(CategoryOrder) THEN "guides"
    ELSE IF AnyKeywordHit(Keywords[CategoryOrder[i]], 1, title_lower, url_lower)
         THEN CategoryOrder[i]
         ELSE FirstCategoryFrom(i + 1, title_lower, url_lower)

RuleBasedClassification(title, url) ==
    IF ~title.isstr \/ ~url.isstr THEN Raised
    ELSE Returned(FirstCategoryFrom(1, Lower(title.chars), Lower(url.chars)))

(***************************************************************************)
(* DocumentSorter.classify_document under                                  *)
(* @retry(stop=stop_after_attempt(3), wait=wait_exponential(...)).         *)
(***************************************************************************)
MaxAttempts == 3

\* response.choices[0].message.content.strip().lower() looked up in the table
NormalizedLabel(response) == Lower(StripChars(response))

InVocabulary(label) == \E c \in Categories : CategoryName[c] = label

CategoryOfLabel(label) == CHOOSE c \in Categories : CategoryName[c] = label

Titles ==
    { JoinWith(parts, " ") :
        parts \in UNION { [1..n -> TitleFragments] : n \in 1..MaxTitleParts } }

TitleChoices == { Str(t) : t \in Titles } \cup { NotAString }

UrlValues == { Str(u) : u \in UrlChoices } \cup { NotAString }

\* the function body ends: a return, or an exception that reaches tenacity
EndAttempt(r, how) ==
    IF r.raised
    THEN /\ cpc' = "failed"
         /\ UNCHANGED <<via, category>>
    ELSE /\ cpc' = "returned"
         /\ via' = how
         /\ category' = r.value

classify_document ==
    /\ cpc = "idle"
    /\ \E t \in TitleChoices, u \in UrlValues :
          /\ doc_title' = t
          /\ doc_url' = u
    /\ attempt' = 1
    /\ cpc' = "attempt"
    /\ UNCHANGED <<has_client, api_calls, last_outcome, via, category>>
    /\ UNCHANGED <<svars, cvars, ovars, pvars, vvars, xvars>>

\* if not self.client: return self._rule_based_classification(doc)
attempt_without_client ==
    /\ cpc = "attempt"
    /\ ~has_client
    /\ EndAttempt(RuleBasedClassification(doc_title, doc_url), "rule")
    /\ UNCHANGED <<has_client, doc_title, doc_url, attempt, api_calls, last_outcome>>
    /\ UNCHANGED <<svars, cvars, ovars, pvars, vvars, xvars>>

\* await self.client.chat.completions.create(...)
attempt_call_api ==
    /\ cpc = "attempt"
    /\ has_client
    /\ api_calls' = api_calls + 1
    /\ cpc' = "awaiting"
    /\ UNCHANGED <<has_client, doc_title, doc_url, attempt, last_outcome, via, category>>
    /\ UNCHANGED <<svars, cvars, ovars, pvars, vvars, xvars>>

api_responds ==
    /\ cpc = "awaiting"
    /\ \E response \in ResponseChoices :
          LET label == NormalizedLabel(response)
          IN  IF InVocabulary(label)
              THEN /\ last_outcome' = "in_vocabulary"
                   /\ EndAttempt(Returned(CategoryOfLabel(label)), "llm")
              ELSE /\ last_outcome' = "out_of_vocabulary"
                   /\ EndAttempt(RuleBasedClassification(doc_title, doc_url), "rule")
    /\ UNCHANGED <<has_client, doc_title, doc_url, attempt, api_calls>>
    /\ UNCHANGED <<svars, cvars, ovars, pvars, vvars, xvars>>

\* except Exception as e: ... return self._rule_based_classification(doc)
api_raises ==
    /\ cpc = "awaiting"
    /\ last_outcome' = "exception"
    /\ EndAttempt(RuleBasedClassification(doc_title, doc_url), "rule")
    /\ UNCHANGED <<has_client, doc_title, doc_url, attempt, api_calls>>
    /\ UNCHANGED <<svars, cvars, ovars, pvars, vvars, xvars>>

\* tenacity: the attempt raised and fewer than MaxAttempts attempts were made
retry ==
    /\ cpc = "failed"
    /\ attempt < MaxAttempts
    /\ attempt' = attempt + 1
    /\ cpc' = "attempt"
    /\ UNCHANGED <<has_client, doc_title, doc_url, api_calls, last_outcome, via, category>>
    /\ UNCHANGED <<svars, cvars, ovars, pvars, vvars, xvars>>

\* tenacity: the last attempt raised; RetryError goes to the caller
retry_error ==
    /\ cpc = "failed"
    /\ attempt >= MaxAttempts
    /\ cpc' = "raised"
    /\ UNCHANGED <<has_client, doc_title, doc_url, attempt, api_calls, last_outcome, via,
                   category>>
    /\ UNCHANGED <<svars, cvars, ovars, pvars, vvars, xvars>>

(***************************************************************************)
(* A title or URL that is searched for in document text is spelled in      *)
(* atoms, one atom per character (a space is SP, a newline is NL).         *)
(***************************************************************************)
Alphabet == LowerCase \o UpperCase \o <<"/", "_", "-", ".", ":">>

CharAtom(c) ==
    IF c = " " THEN SP
    ELSE IF c = "\n" THEN NL
    ELSE 1000 + (CHOOSE i \in 1..Len(Alphabet) : Alphabet[i] = c)

Encode(chars) == [i \in 1..Len(chars) |-> CharAtom(chars[i])]

(***************************************************************************)
(* ProcessedDocument.  complexity_score <<p, n>> is p / (100000 * n).      *)
(***************************************************************************)
ProcessedDocument(file_path, original_url, title) ==
    [file_path |-> file_path, original_url |-> original_url, title |-> title,
     chunks |-> <<>>, category |-> "None", dependencies |-> <<>>,
     complexity_score |-> <<0, 1>>]

(***************************************************************************)
(* DocumentSorter.classify_document as sort_documents sees it: the value   *)
(* the call returns, or the RetryError it raises.  With a client, any      *)
(* attempt may get an in-vocabulary answer; every other attempt ends in    *)
(* _rule_based_classification.                                             *)
(***************************************************************************)
ClassifyOutcomes(doc, client) ==
    { RuleBasedClassification(doc.title, doc.original_url) }
    \cup (IF client
          THEN { Returned(CategoryOfLabel(NormalizedLabel(r))) :
                   r \in { x \in ResponseChoices : InVocabulary(NormalizedLabel(x)) } }
          ELSE {})

(***************************************************************************)
(* DocumentSorter.create_dependency_graph                                  *)
(***************************************************************************)
RECURSIVE Dedup(_)
Dedup(s) ==
    IF s = <<>> THEN <<>>
    ELSE LET front == Dedup(SubSeq(s, 1, Len(s) - 1))
             last == s[Len(s)]
         IN  IF \E k \in 1..Len(front) : front[k] = last THEN front
             ELSE Append(front, last)

\* graph.add_node(doc.file_path, doc=doc), in the order of the list
GraphNodes(docs) == Dedup([i \in 1..Len(docs) |-> docs[i].file_path])

\* ' '.join([chunk.content for chunk in doc.chunks])
DocContent(doc) == JoinWith([k \in 1..Len(doc.chunks) |-> doc.chunks[k].content], SP)

\* other_doc.original_url in content  or  other_doc.title in content
Mentions(doc, other) ==
    \/ Contains(DocContent(doc), Encode(other.original_url.chars))
    \/ Contains(DocContent(doc), Encode(other.title.chars))

\* `x in content` raises TypeError when x is not a string
GraphRaises(docs) ==
    \E i, j \in 1..Len(docs) :
        /\ docs[i].file_path # docs[j].file_path
        /\ ~docs[j].original_url.isstr \/ ~docs[j].title.isstr

\* the edges A -> B: A's content mentions B
CreateDependencyGraph(docs) ==
    { <<docs[p[1]].file_path, docs[p[2]].file_path>> :
        p \in { q \in (1..Len(docs)) \X (1..Len(docs)) :
                  /\ docs[q[1]].file_path # docs[q[2]].file_path
                  /\ Mentions(docs[q[1]], docs[q[2]]) } }

\* Predecessors with the direction of the edges reversed
Successors(docs, edges, file_path) ==
    SelectSeq(GraphNodes(docs), LAMBDA p : <<file_path, p>> \in edges)

\* list(dep_graph.predecessors(doc.file_path))
Predecessors(docs, edges, file_path) ==
    SelectSeq(GraphNodes(docs), LAMBDA p : <<p, file_path>> \in edges)

(***************************************************************************)
(* DocumentSorter.calculate_complexity_scores.  The score                  *)
(*   min(1.0, total_tokens/10000*0.3 + code_chunks/max(len(chunks),1)*0.3  *)
(*            + avg_chunk_size/1000*0.2 + len(dependencies)/10*0.2)        *)
(* is kept exactly: <<p, n>> is the score p / (100000 * n), where n is    *)
(* max(len(chunks), 1).                                                    *)
(***************************************************************************)
RECURSIVE SumTokens(_, _)
SumTokens(cs, k) == IF k > Len(cs) THEN 0 ELSE cs[k].tokens + SumTokens(cs, k + 1)

ComplexityScore(doc) ==
    LET total_tokens == SumTokens(doc.chunks, 1)
        code_chunks == Cardinality({ k \in 1..Len(doc.chunks) :
                                       doc.chunks[k].metadata["type"] = "code" })
        n == IF Len(doc.chunks) = 0 THEN 1 ELSE Len(doc.chunks)
        avg_num == IF Len(doc.chunks) = 0 THEN 0 ELSE total_tokens
        num == 3 * total_tokens * n + 30000 * code_chunks + 20 * avg_num
               + 2000 * Len(doc.dependencies) * n
    IN  IF num >= 100000 * n THEN <<100000, 1>> ELSE <<num, n>>

\* <<p, n>> stands for p / (100000 * n)
ScoreLess(a, b) == a[1] * b[2] < b[1] * a[2]

(***************************************************************************)
(* DocumentSorter.sort_documents: sorted(documents, key=sort_key)          *)
(***************************************************************************)
CategoryIndex(c) ==
    IF c \in Categories
    THEN (CHOOSE i \in 1..Len(CategoryOrder) : CategoryOrder[i] = c) - 1
    ELSE 99

KeyLess(a, b) ==
    \/ CategoryIndex(a.category) < CategoryIndex(b.category)
    \/ /\ CategoryIndex(a.category) = CategoryIndex(b.category)
       /\ ScoreLess(a.complexity_score, b.complexity_score)

\* InsertByKey that leaves the list in arrival order
InsertAtEnd(list, d) == Append(list, d)

\* sorted() is stable: d goes before the first element with a greater key
RECURSIVE InsertByKey(_, _)
InsertByKey(list, d) ==
    IF list = <<>> THEN <<d>>
    ELSE IF KeyLess(d, list[1]) THEN <<d>> \o list
    ELSE <<list[1]>> \o InsertByKey(Tail(list), d)

RECURSIVE SortedByKey(_, _, _)
SortedByKey(docs, i, out) ==
    IF i > Len(docs) THEN out ELSE SortedByKey(docs, i + 1, InsertByKey(out, docs[i]))

(***************************************************************************)
(* DocumentSorter._topological_sort_with_categories.                       *)
(* nx.topological_sort(subgraph) yields the nodes in an order in which     *)
(* every edge goes forward; which of these orders is the library's         *)
(* choice.  On a cycle it raises NetworkXUnfeasible before yielding the    *)
(* list.                                                                   *)
(***************************************************************************)
RECURSIVE OrdersOf(_)
OrdersOf(S) ==
    IF S = {} THEN { <<>> }
    ELSE UNION { { <<x>> \o p : p \in OrdersOf(S \ {x}) } : x \in S }

\* TopologicalSorts with every edge pointing backwards
TopologicalSortsBackwards(nodes, edges) ==
    { p \in OrdersOf(nodes) :
        \A i, j \in 1..Len(p) : <<p[i], p[j]>> \in edges => i > j }

TopologicalSorts(nodes, edges) ==
    { p \in OrdersOf(nodes) :
        \A i, j \in 1..Len(p) : <<p[i], p[j]>> \in edges => i < j }

\* BucketOf that puts every document into the first bucket
BucketOfFirst(docs, c) == IF c = CategoryOrder[1] THEN docs ELSE <<>>

\* category_docs[category]
BucketOf(docs, c) == SelectSeq(docs, LAMBDA d : d.category = c)

\* next(d for d in category_docs[category] if d.file_path == file_path)
DocOfFile(bucket, file_path) ==
    bucket[CHOOSE k \in 1..Len(bucket) :
              /\ bucket[k].file_path = file_path
              /\ \A m \in 1..(k - 1) : bucket[m].file_path # file_path]

\* BucketOrders that emits nothing for a bucket with a cycle
BucketOrdersNoFallback(bucket, edges) ==
    LET files == { bucket[k].file_path : k \in 1..Len(bucket) }
        orders == TopologicalSorts(files, edges)
    IN  IF orders = {} THEN { <<>> }
        ELSE { [k \in 1..Len(o) |-> DocOfFile(bucket, o[k])] : o \in orders }

\* the orders in which one bucket can be emitted
BucketOrders(bucket, edges) ==
    LET files == { bucket[k].file_path : k \in 1..Len(bucket) }
        orders == TopologicalSorts(files, edges)
    IN  IF orders = {} THEN { bucket }
        ELSE { [k \in 1..Len(o) |-> DocOfFile(bucket, o[k])] : o \in orders }

RECURSIVE TopologicalSortWithCategories(_, _, _)
TopologicalSortWithCategories(docs, edges, i) ==
    IF i > Len(CategoryOrder) THEN { <<>> }
    ELSE LET bucket == BucketOf(docs, CategoryOrder[i])
             heads == IF bucket = <<>> THEN { <<>> } ELSE BucketOrders(bucket, edges)
         IN  { h \o t : h \in heads,
                        t \in TopologicalSortWithCategories(docs, edges, i + 1) }

(***************************************************************************)
(* DocumentSorter.sort_documents.  results[i] is what classify_document    *)
(* did for documents[i].  The documents are objects the call updates in    *)
(* place: `documents` is the input list as the call left it.               *)
(***************************************************************************)
SortDocumentsWith(docs, results) ==
    LET n == Len(docs)
        failing == { i \in 1..n : results[i].raised }
        first == CHOOSE i \in failing : \A k \in failing : i <= k
        classified == [i \in 1..n |-> [docs[i] EXCEPT !.category = results[i].value]]
        edges == CreateDependencyGraph(classified)
        with_deps == [i \in 1..n |->
                        [classified[i] EXCEPT !.dependencies =
                            Predecessors(classified, edges, classified[i].file_path)]]
        scored == [i \in 1..n |->
                     [with_deps[i] EXCEPT !.complexity_score = ComplexityScore(with_deps[i])]]
    IN  IF failing # {}
        THEN { [raised |-> TRUE,
                documents |-> [i \in 1..n |-> IF i < first THEN classified[i] ELSE docs[i]],
                dep_graph |-> {}, sorted_docs |-> <<>>] }
        ELSE IF GraphRaises(classified)
        THEN { [raised |-> TRUE, documents |-> classified,
                dep_graph |-> {}, sorted_docs |-> <<>>] }
        ELSE { [raised |-> FALSE, documents |-> scored, dep_graph |-> edges,
                sorted_docs |-> s] :
                 s \in TopologicalSortWithCategories(SortedByKey(scored, 1, <<>>), edges, 1) }

\* what the classify_document calls of the loop can do, one outcome per document
RECURSIVE ClassifyAll(_, _, _)
ClassifyAll(docs, client, i) ==
    IF i > Len(docs) THEN { <<>> }
    ELSE { <<r>> \o rest : r \in ClassifyOutcomes(docs[i], client),
                           rest \in ClassifyAll(docs, client, i + 1) }

SortDocuments(docs, client) ==
    UNION { SortDocumentsWith(docs, results) : results \in ClassifyAll(docs, client, 1) }

(***************************************************************************)
(* Inputs of sort_documents: up to MaxDocs documents of different files.   *)
(* Document i is file i; its URL is empty or its own; its chunks mention   *)
(* a title, the URL of file 1, or nothing.                                 *)
(***************************************************************************)
FileOf(i) == [folder |-> <<>>, stem |-> <<LowerCase[i]>>]

UrlOf(i) == <<"/", LowerCase[i]>>

SortTitles ==
    { Str(<<"S", "e", "t", "u", "p">>),
      Str(<<"Q", "u", "i", "c", "k", "s", "t", "a", "r", "t">>),
      Str(<<"A", "P", "I">>) }

\* the text chunk "see <rest>"
TextOf(rest, position) ==
    TextChunk(<<Encode(<<"s", "e", "e">>), Encode(rest)>>, 2, <<>>, EmptyMeta, position)

ChunkListChoices ==
    { <<>>,
      <<TextOf(<<"S", "e", "t", "u", "p">>, 0)>>,
      <<TextOf(<<"Q", "u", "i", "c", "k", "s", "t", "a", "r", "t">>, 0)>>,
      <<CodeChunk(<<FENCE, 1, FENCE>>, EmptyMeta, 0), TextOf(UrlOf(1), 1)>> }

\* a document with one of the titles and chunks, one without chunks, or one
\* whose title is not a string
DocChoices(i) ==
    { [ProcessedDocument(FileOf(i), u, t) EXCEPT !.chunks = cs] :
        t \in SortTitles, u \in { Str(<<>>), Str(UrlOf(i)) },
        cs \in ChunkListChoices \ { <<>> } }
    \cup { ProcessedDocument(FileOf(i), Str(UrlOf(i)), t) :
             t \in { Str(<<"S", "e", "t", "u", "p">>), NotAString } }

RECURSIVE DocLists(_)
DocLists(n) ==
    IF n = 0 THEN { <<>> }
    ELSE { Append(l, d) : l \in DocLists(n - 1), d \in DocChoices(n) }

sort_documents ==
    /\ sort_pc = "idle"
    /\ \E n \in 0..MaxDocs : \E docs \in DocLists(n) :
          \E out \in SortDocuments(docs, has_client) :
             /\ documents' = out.documents
             /\ dep_graph' = out.dep_graph
             /\ sorted_docs' = out.sorted_docs
             /\ sort_pc' = IF out.raised THEN "raised" ELSE "returned"
    /\ UNCHANGED <<svars, cvars, kvars, pvars, vvars, xvars>>

(***************************************************************************)
(* DocumentCleaner.extract_metadata.  DASHES is the delimiter '---'.  A    *)
(* frontmatter line `key: value` is the atom of `key:`, a space and the    *)
(* value: a text spelled in character atoms, the integer 2024 or a date.   *)
(* A line without a key is a plain scalar.  yaml.safe_load gives None for  *)
(* an empty document, a mapping for lines of pairs, a string for plain     *)
(* scalars, and raises for a mixture of the two.                           *)
(***************************************************************************)
DASHES == -7
IntLiteral == -8
DateLiteral == -9

YamlKeys == <<"title", "url", "scraped_at">>

KeyAtom(key) == 2000 + (CHOOSE k \in 1..Len(YamlKeys) : YamlKeys[k] = key)

YamlLine(key, value) == <<KeyAtom(key), SP>> \o value

IsPairLine(line) ==
    /\ Len(line) >= 3
    /\ \E k \in 1..Len(YamlKeys) : line[1] = 2000 + k
    /\ line[2] = SP

\* the inverse of Encode
Decode(atoms) ==
    [i \in 1..Len(atoms) |->
        IF atoms[i] = SP THEN " "
        ELSE IF atoms[i] - 1000 \in 1..Len(Alphabet) THEN Alphabet[atoms[i] - 1000]
        ELSE "?"]

\* the value of a pair: an int, a date (not a string, with an isoformat
\* method) or a string
ScalarOf(value) ==
    IF value = <<IntLiteral>> THEN NotAString
    ELSE IF value = <<DateLiteral>> THEN [isstr |-> FALSE, chars |-> <<"d", "a", "t", "e">>]
    ELSE Str(Decode(value))

YamlLoad(text) ==
    LET lines == SelectSeq(SplitOn(text, NL), LAMBDA l : Strip(l) # <<>>)
        KeyOf(l) == YamlKeys[l[1] - 2000]
        keys == { KeyOf(lines[k]) : k \in 1..Len(lines) }
        last(key) == CHOOSE k \in 1..Len(lines) :
                        /\ KeyOf(lines[k]) = key
                        /\ \A m \in (k + 1)..Len(lines) : KeyOf(lines[m]) # key
    IN  IF lines = <<>> THEN [kind |-> "none", map |-> EmptyMeta]
        ELSE IF \A k \in 1..Len(lines) : IsPairLine(lines[k])
        THEN [kind |-> "map",
              map |-> [key \in keys |->
                         ScalarOf(SubSeq(lines[last(key)], 3, Len(lines[last(key)])))]]
        ELSE IF \A k \in 1..Len(lines) : ~IsPairLine(lines[k])
        THEN [kind |-> "scalar", map |-> EmptyMeta]
        ELSE [kind |-> "error", map |-> EmptyMeta]

\* if hasattr(value, 'isoformat'): metadata[key] = value.isoformat()
IsoFormatted(map) ==
    [key \in DOMAIN map |->
        IF ~map[key].isstr /\ map[key].chars # <<>> THEN Str(map[key].chars) ELSE map[key]]

IndexOf(s, a, i) ==
    IF \E j \in i..Len(s) : s[j] = a
    THEN CHOOSE j \in i..Len(s) : s[j] = a /\ \A k \in i..(j - 1) : s[k] # a
    ELSE 0

Mapping(map) == [ismap |-> TRUE, map |-> map]

\* the metadata is None (or another value without .get)
NoMapping == [ismap |-> FALSE, map |-> EmptyMeta]

ExtractMetadata(content) ==
    LET close == IndexOf(content, DASHES, 2)
        loaded == YamlLoad(SubSeq(content, 2, close - 1))
        rest == SubSeq(content, close + 1, Len(content))
        unchanged == [metadata |-> Mapping(EmptyMeta), body |-> content]
    IN  IF content = <<>> \/ content[1] # DASHES THEN unchanged
        ELSE IF close = 0 THEN unchanged                  \* ValueError of the unpacking
        ELSE IF loaded.kind = "error" THEN unchanged      \* yaml.YAMLError
        ELSE IF loaded.kind = "scalar" THEN unchanged     \* AttributeError of .items()
        ELSE IF loaded.kind = "none" THEN [metadata |-> NoMapping, body |-> rest]
        ELSE [metadata |-> Mapping(IsoFormatted(loaded.map)), body |-> rest]

(***************************************************************************)
(* DocumentPostProcessor.process_document.  The result is the document,    *)
(* None, or an exception.                                                  *)
(***************************************************************************)
\* ProcessDocument without the check for an empty text
ProcessDocumentNoSkip(file, cfg) ==
    LET em == ExtractMetadata(file.content)
        cleaned_content == CleanDocument(em.body, TRUE)
        doc == ProcessedDocument(file.file_path,
                                 Get(em.metadata.map, "url", Str(<<>>)),
                                 Get(em.metadata.map, "title", Str(file.file_path.stem)))
    IN  IF ~file.readable \/ ~em.metadata.ismap THEN [kind |-> "error", doc |-> doc]
        ELSE [kind |-> "doc",
              doc |-> [doc EXCEPT !.chunks =
                         StructureDocumentFn(cleaned_content, em.metadata.map, cfg)]]

ProcessDocument(file, cfg) ==
    LET em == ExtractMetadata(file.content)
        cleaned_content == CleanDocument(em.body, TRUE)
        doc == ProcessedDocument(file.file_path,
                                 Get(em.metadata.map, "url", Str(<<>>)),
                                 Get(em.metadata.map, "title", Str(file.file_path.stem)))
        cs == StructureDocumentFn(cleaned_content, em.metadata.map, cfg)
    IN  IF ~file.readable THEN [kind |-> "error", doc |-> doc]    \* open() or read() raises
        ELSE IF Strip(cleaned_content) = <<>> THEN [kind |-> "none", doc |-> doc]
        ELSE IF ~em.metadata.ismap THEN [kind |-> "error", doc |-> doc]  \* metadata.get
        ELSE [kind |-> "doc",
              doc |-> [doc EXCEPT !.chunks =
                         [k \in 1..Len(cs) |-> [cs[k] EXCEPT !.parent_doc = file.file_path]]]]

(***************************************************************************)
(* DocumentPostProcessor.save_processed_documents.  A path of the output   *)
(* directory is [dir, name]; a filename_stem is [index, prefix, stem].     *)
(***************************************************************************)
FilenameStem(i, doc, flatten) ==
    [index |-> i,
     prefix |-> IF flatten THEN doc.file_path.folder ELSE <<>>,
     stem |-> doc.file_path.stem]

CleanedPath(i, doc, flatten) == [dir |-> <<"cleaned">>, name |-> FilenameStem(i, doc, flatten)]

\* the key of source_folders: Path('root') for a file of the input directory
SourceFolder(file_path) == IF file_path.folder = <<>> THEN <<"root">> ELSE file_path.folder

SummaryDocument(i, doc, flatten) ==
    [index |-> i, file |-> CleanedPath(i, doc, flatten), original |-> doc.file_path,
     title |-> doc.title, category |-> doc.category, chunks |-> Len(doc.chunks),
     complexity |-> doc.complexity_score, dependencies |-> doc.dependencies,
     source_folder |-> doc.file_path.folder]

RECURSIVE TotalChunks(_, _)
TotalChunks(docs, i) ==
    IF i > Len(docs) THEN 0 ELSE Len(docs[i].chunks) + TotalChunks(docs, i + 1)

VectorEntry(doc, chunk) ==
    [content |-> chunk.content,
     metadata |-> [category |-> doc.category, complexity |-> doc.complexity_score,
                   parent_title |-> doc.title, source_file |-> doc.file_path]
                  @@ chunk.metadata]

\* VectorIndex with the chunks of each document in reverse
RECURSIVE VectorIndexChunksReversed(_, _)
VectorIndexChunksReversed(docs, i) ==
    IF i > Len(docs) THEN <<>>
    ELSE [k \in 1..Len(docs[i].chunks) |->
            VectorEntry(docs[i], docs[i].chunks[Len(docs[i].chunks) + 1 - k])]
         \o VectorIndexChunksReversed(docs, i + 1)

RECURSIVE VectorIndex(_, _)
VectorIndex(docs, i) ==
    IF i > Len(docs) THEN <<>>
    ELSE [k \in 1..Len(docs[i].chunks) |-> VectorEntry(docs[i], docs[i].chunks[k])]
         \o VectorIndex(docs, i + 1)

SaveProcessedDocuments(docs, flatten, folders) ==
    [summary |->
        [total_documents |-> Len(docs),
         total_chunks |-> TotalChunks(docs, 1),
         categories |-> [c \in { docs[i].category : i \in 1..Len(docs) } |->
                            Cardinality({ i \in 1..Len(docs) : docs[i].category = c })],
         source_folders |-> folders,
         documents |-> [i \in 1..Len(docs) |-> SummaryDocument(i - 1, docs[i], flatten)]],
     written |-> [i \in 1..Len(docs) |->
                    [cleaned_path |-> CleanedPath(i - 1, docs[i], flatten),
                     chunk_dir |-> [dir |-> <<"chunks">>,
                                    name |-> FilenameStem(i - 1, docs[i], flatten)],
                     chunk_files |-> Len(docs[i].chunks)]],
     vector_index |-> VectorIndex(docs, 1)]

(***************************************************************************)
(* Input directories: up to MaxFiles files.  File i has the stem of letter *)
(* i (or that stem behind an underscore) and holds one of the texts below   *)
(* in the input directory, or the first of them in its subfolder sub.      *)
(***************************************************************************)
GettingStarted == <<"G", "e", "t", "t", "i", "n", "g", " ", "S", "t", "a", "r", "t", "e", "d">>

TitleLine == YamlLine("title", Encode(GettingStarted))

Frontmatter(lines) == <<DASHES, NL>> \o lines \o <<DASHES, NL>>

IntroShort == <<HASH, SP, 1, NL, 2>>

FileTexts ==
    { IntroShort,
      Frontmatter(TitleLine \o <<NL>>) \o IntroShort,
      Frontmatter(YamlLine("url", Encode(UrlOf(1))) \o <<NL>>
                  \o YamlLine("scraped_at", <<DateLiteral>>) \o <<NL>>)
          \o <<FENCE, NL, 1, NL, FENCE, NL, 2>>,
      Frontmatter(YamlLine("title", <<IntLiteral>>) \o <<NL>>) \o IntroShort,
      Frontmatter(<<>>) \o IntroShort,
      <<DASHES, NL>> \o TitleLine \o <<NL>> \o IntroShort,
      Frontmatter(<<3, NL>>) \o IntroShort,
      <<SP, NL, NAV>>,
      Frontmatter(TitleLine \o <<NL>>),
      <<HASH, SP, 1>> }

InputFile(folder, stem, readable, content) ==
    [file_path |-> [folder |-> folder, stem |-> stem], readable |-> readable,
     content |-> content]

FileChoices(i) ==
    { InputFile(<<>>, <<LowerCase[i]>>, TRUE, text) : text \in FileTexts }
    \cup { InputFile(<<"sub">>, <<LowerCase[i]>>, TRUE, IntroShort),
           InputFile(<<>>, <<LowerCase[i]>>, FALSE, <<>>),
           InputFile(<<>>, <<"_", LowerCase[i]>>, TRUE, IntroShort) }

RECURSIVE FileLists(_)
FileLists(n) ==
    IF n = 0 THEN { <<>> }
    ELSE { Append(l, f) : l \in FileLists(n - 1), f \in FileChoices(n) }

\* rglob("*.md") or glob("*.md"), then the files whose name starts with '_' removed
MdFiles(listing, rec) ==
    SelectSeq(listing, LAMBDA f : /\ rec \/ f.file_path.folder = <<>>
                                  /\ f.file_path.stem[1] # "_")

\* the orders in which the file system lists the files: by name, or by name
\* in reverse
Listings(files) ==
    { files, [k \in 1..Len(files) |-> files[Len(files) + 1 - k]] }

process_all_documents ==
    /\ ppc = "idle"
    /\ \E n \in 0..MaxFiles : \E files \in FileLists(n) : \E listing \in Listings(files) :
       \E rec, flatten \in BOOLEAN :
          /\ recursive' = rec
          /\ flatten_output' = flatten
          /\ md_files' = MdFiles(listing, rec)
    /\ next_file' = 1
    /\ source_folders' = <<>>
    /\ ppc' = "files"
    /\ calls' = 1
    /\ UNCHANGED <<processed_docs, errors, summary, written, vector_index>>
    /\ UNCHANGED <<svars, cvars, kvars, ovars, vvars, xvars>>

\* a further call on the same object, with the same arguments and the input
\* directory unchanged: md_files is found again, source_folders starts
\* empty, and self.processed_docs is left as the call before left it
process_all_documents_again ==
    /\ ppc = "returned"
    /\ calls < MaxCalls
    /\ calls' = calls + 1
    /\ next_file' = 1
    /\ source_folders' = <<>>
    /\ ppc' = "files"
    /\ UNCHANGED <<recursive, flatten_output, md_files, processed_docs, errors, summary,
                   written, vector_index>>
    /\ UNCHANGED <<svars, cvars, kvars, ovars, vvars, xvars>>

\* one iteration of the loop over md_files
process_document ==
    /\ ppc = "files"
    /\ next_file <= Len(md_files)
    /\ LET md_file == md_files[next_file]
           r == ProcessDocument(md_file, [chunk_size |-> chunk_size,
                                          chunk_overlap |-> chunk_overlap])
           folder == SourceFolder(md_file.file_path)
       IN  /\ processed_docs' = IF r.kind = "doc" THEN Append(processed_docs, r.doc)
                                ELSE processed_docs
           /\ source_folders' = IF r.kind = "doc" THEN Dedup(Append(source_folders, folder))
                                ELSE source_folders
           /\ errors' = IF r.kind = "error" THEN Append(errors, md_file.file_path)
                        ELSE errors
    /\ next_file' = next_file + 1
    /\ UNCHANGED <<recursive, flatten_output, md_files, ppc, summary, written, vector_index,
                   calls>>
    /\ UNCHANGED <<svars, cvars, kvars, ovars, vvars, xvars>>

\* self.processed_docs = await self.sorter.sort_documents(self.processed_docs)
sort_processed_docs ==
    /\ ppc = "files"
    /\ next_file > Len(md_files)
    /\ \E out \in SortDocuments(processed_docs, has_client) :
          /\ documents' = out.documents
          /\ dep_graph' = out.dep_graph
          /\ sorted_docs' = out.sorted_docs
          /\ sort_pc' = IF out.raised THEN "raised" ELSE "returned"
          /\ processed_docs' = IF out.raised THEN out.documents ELSE out.sorted_docs
          /\ ppc' = IF out.raised THEN "raised" ELSE "saving"
    /\ UNCHANGED <<recursive, flatten_output, md_files, next_file, source_folders, errors,
                   summary, written, vector_index, calls>>
    /\ UNCHANGED <<svars, cvars, kvars, vvars, xvars>>

save_processed_documents ==
    /\ ppc = "saving"
    /\ LET saved == SaveProcessedDocuments(processed_docs, flatten_output, source_folders)
       IN  /\ summary' = saved.summary
           /\ written' = saved.written
           /\ vector_index' = saved.vector_index
    /\ ppc' = "returned"
    /\ UNCHANGED <<recursive, flatten_output, md_files, next_file, processed_docs,
                   source_folders, errors, calls>>
    /\ UNCHANGED <<svars, cvars, kvars, ovars, vvars, xvars>>

(***************************************************************************)
(* Inputs of clean_document: texts of up to MaxRawLen atoms.               *)
(***************************************************************************)
CleanerAlphabet == {1, SP, NL, FENCE, STAR, NAV}

RawTexts == UNION { [1..n -> CleanerAlphabet] : n \in 0..MaxRawLen }

clean_document ==
    /\ ~clean_done
    /\ \E text \in RawTexts, p \in BOOLEAN :
          /\ raw' = text
          /\ preserve_structure' = p
          /\ cleaned' = CleanDocument(text, p)
    /\ clean_done' = TRUE
    /\ UNCHANGED <<svars, kvars, ovars, pvars, vvars, xvars>>

structure_document ==
    /\ ~structured
    /\ \E n \in 1..MaxLines : \E d \in DocsOfLength(n) : \E m \in DocMetadataChoices :
          /\ sdoc' = d
          /\ smeta' = m
          /\ chunks' = StructureDocumentFn(d, m, [chunk_size |-> chunk_size,
                                                   chunk_overlap |-> chunk_overlap])
    /\ structured' = TRUE
    /\ UNCHANGED <<chunk_size, chunk_overlap>>
    /\ UNCHANGED <<cvars, kvars, ovars, pvars, vvars, xvars>>

(***************************************************************************)
(* vector-server/src/mcp_vector_server/simple_server.py: the module's      *)
(* in-memory stores, its six tool functions and handle_request.            *)
(*                                                                         *)
(* A text is a sequence of lower-case words; a dict is a record.  The      *)
(* timestamp fields and the fields a store copies from its keyword         *)
(* arguments without reading them again are left out of the stored         *)
(* chunks.  None is the string "None".                                     *)
(***************************************************************************)
None == "None"

\* uuid.uuid4().hex[:8]
Uuids == {"1f0e9a77", "c4d2b801"}

Vocabulary == {"auth", "oauth", "hooks", "react", "documentation", "claude", "code",
               "setup", "guide"}

\* load_vector_database without VECTOR_DB_PATH
DemoData ==
    <<[chunk_id |-> "demo_1", content |-> <<"react", "hooks", "documentation">>],
      [chunk_id |-> "demo_2", content |-> <<"claude", "code", "setup", "guide">>]>>

\* load_vector_database: the demo data, or [] when the index file is
\* missing
LoadVectorDatabase ==
    { DemoData, <<>> }

\* word.count(term) for the words of Vocabulary
CountInWord(term, word) ==
    IF term = word \/ (term = "auth" /\ word = "oauth") THEN 1 ELSE 0

\* content.count(term): a term holds no whitespace, so that every
\* occurrence lies within one word
RECURSIVE StrCount(_, _)
StrCount(content, term) ==
    IF content = <<>> THEN 0
    ELSE CountInWord(term, Head(content)) + StrCount(Tail(content), term)

\* the loop over query_terms of search_documentation
RECURSIVE DocScore(_, _)
DocScore(content, query_terms) ==
    IF query_terms = <<>> THEN 0
    ELSE StrCount(content, Head(query_terms)) + DocScore(content, Tail(query_terms))

\* the loop over query_terms of search_agent_observations, in halves: a
\* match in the analysis counts 0.5
RECURSIVE ObsScore(_, _)
ObsScore(obs, query_terms) ==
    IF query_terms = <<>> THEN 0
    ELSE 2 * StrCount(obs.content, Head(query_terms))
         + StrCount(obs.analysis, Head(query_terms))
         + ObsScore(obs, Tail(query_terms))

\* results.sort(key=lambda x: x['score'], reverse=True): a stable sort
RECURSIVE InsertByScore(_, _)
InsertByScore(sorted, r) ==
    IF sorted = <<>> THEN <<r>>
    ELSE IF Head(sorted).score >= r.score THEN <<Head(sorted)>> \o InsertByScore(Tail(sorted), r)
    ELSE <<r>> \o sorted

RECURSIVE SortByScore(_)
SortByScore(results) ==
    IF results = <<>> THEN <<>>
    ELSE InsertByScore(SortByScore(SubSeq(results, 1, Len(results) - 1)),
                       results[Len(results)])

\* results[:limit]
UpTo(results, limit) ==
    IF limit >= 0 THEN SubSeq(results, 1, Min(limit, Len(results)))
    ELSE SubSeq(results, 1, IF Len(results) + limit > 0 THEN Len(results) + limit ELSE 0)

\* the ranks and the deleted scores of the first limit results; a result
\* beyond them is not returned
Ranked(results, limit) ==
    LET top == UpTo(results, limit)
    IN  [i \in 1..Len(top) |-> [chunk |-> top[i].chunk, similarity |-> top[i].similarity,
                                rank |-> i]]

DefaultLimit == 10

RECURSIVE Scored(_, _, _)
\* the results list before the sort, similarity in thousandths
Scored(chunks_, query_terms, observations) ==
    IF chunks_ = <<>> THEN <<>>
    ELSE LET chunk == Head(chunks_)
             score == IF observations THEN ObsScore(chunk, query_terms)
                      ELSE DocScore(chunk.content, query_terms)
             raw_similarity == IF observations THEN 300 + score * 75 ELSE 300 + score * 100
             rest == Scored(Tail(chunks_), query_terms, observations)
         IN  IF score > 0
             THEN <<[chunk |-> IF observations THEN chunk
                                  ELSE [chunk_id |-> chunk.chunk_id, content |-> chunk.content,
                                        metadata |-> <<>>, tokens |-> Len(chunk.content)],
                     similarity |-> IF raw_similarity < 950 THEN raw_similarity ELSE 950,
                     score |-> score]>> \o rest
             ELSE rest

ToolNames == {"search_documentation", "store_agent_observation", "search_agent_observations",
              "store_agent_metric", "analyze_coordination_patterns",
              "generate_agent_insights"}

\* the parameters of the def statement of each tool function
Signature(tool) ==
    CASE tool = "search_documentation" ->
             [required |-> {"query"}, optional |-> {"limit"}, var_keyword |-> TRUE]
      [] tool = "store_agent_observation" ->
             [required |-> {"agent_type", "task_id", "project_id", "category", "content",
                            "observation_data", "analysis"},
              optional |-> {}, var_keyword |-> TRUE]
      [] tool = "search_agent_observations" ->
             [required |-> {"query"}, optional |-> {"limit"}, var_keyword |-> TRUE]
      [] tool = "store_agent_metric" ->
             [required |-> {"agent_type", "metric_type", "project_id", "measurements"},
              optional |-> {}, var_keyword |-> TRUE]
      [] tool = "analyze_coordination_patterns" ->
             [required |-> {"agent_sequence", "pattern_name", "project_context"},
              optional |-> {}, var_keyword |-> TRUE]
      [] tool = "generate_agent_insights" ->
             [required |-> {}, optional |-> {"agent_type", "time_range"},
              var_keyword |-> FALSE]

\* Python's binding of tool(**arguments): a TypeError for a missing
\* required argument, and for a keyword no parameter takes
BindingRaises(tool, arguments) ==
    LET sig == Signature(tool)
    IN  \/ sig.required \ DOMAIN arguments # {}
        \/ ~sig.var_keyword /\ DOMAIN arguments \ (sig.required \cup sig.optional) # {}

\* how a call ended, and the globals it left
Returns(value) ==
    [how |-> "returned", value |-> value, DATABASE |-> DATABASE,
     AGENT_OBSERVATIONS |-> AGENT_OBSERVATIONS, AGENT_METRICS |-> AGENT_METRICS,
     COORDINATION_PATTERNS |-> COORDINATION_PATTERNS]

Raises(exception) ==
    [how |-> "raised", value |-> exception, DATABASE |-> DATABASE,
     AGENT_OBSERVATIONS |-> AGENT_OBSERVATIONS, AGENT_METRICS |-> AGENT_METRICS,
     COORDINATION_PATTERNS |-> COORDINATION_PATTERNS]

\* get_database, then the scoring, the sort and the cut of
\* search_documentation
search_documentation(arguments) ==
    { [Returns([results |-> Ranked(SortByScore(Scored(db, arguments.query, FALSE)),
                                   Get(arguments, "limit", DefaultLimit))])
          EXCEPT !.DATABASE = db] :
      db \in IF DATABASE = None THEN LoadVectorDatabase ELSE {DATABASE} }

\* the filters of search_agent_observations: a filter that is absent or
\* falsy filters nothing
PassesFilters(obs, filters) ==
    \A key \in {"agent_type", "category", "project_id", "task_id"} :
        Get(filters, key, None) \in {None, ""} \/ obs[key] = filters[key]

search_agent_observations(arguments) ==
    { Returns([results |->
          Ranked(SortByScore(Scored(SelectSeq(AGENT_OBSERVATIONS,
                                              LAMBDA obs : PassesFilters(obs, arguments)),
                                    arguments.query, TRUE)),
                 Get(arguments, "limit", DefaultLimit))]) }

store_agent_observation(arguments) ==
    { [Returns(<<"obs", u>>) EXCEPT !.AGENT_OBSERVATIONS = Append(AGENT_OBSERVATIONS,
          [chunk_id |-> <<"obs", u>>,
           content |-> arguments.content,
           type |-> "observation",
           agent_type |-> arguments.agent_type,
           task_id |-> arguments.task_id,
           project_id |-> arguments.project_id,
           category |-> arguments.category,
           analysis |-> arguments.analysis,
           recommendations |-> Get(arguments, "recommendations", <<>>),
           tokens |-> Len(arguments.content)])] :
      u \in Uuids }

store_agent_metric(arguments) ==
    { [Returns(<<"metric", u>>) EXCEPT !.AGENT_METRICS = Append(AGENT_METRICS,
          [chunk_id |-> <<"metric", u>>,
           content |-> <<arguments.agent_type, arguments.metric_type, "performance",
                         "metric">>,
           type |-> "metric",
           agent_type |-> arguments.agent_type,
           metric_type |-> arguments.metric_type,
           project_id |-> arguments.project_id,
           measurements |-> arguments.measurements,
           tokens |-> 2])] :
      u \in Uuids }

\* completion_rate in hundredths
analyze_coordination_patterns(arguments) ==
    { [Returns([pattern_id |-> <<"pattern", u>>,
                effectiveness_score |->
                    Get(Get(arguments, "success_metrics", <<>>), "completion_rate", 0),
                optimization_suggestions |-> Get(arguments, "optimizations", <<>>),
                applicable_scenarios |-> Get(arguments, "applicable_scenarios", <<>>)])
          EXCEPT !.COORDINATION_PATTERNS = Append(COORDINATION_PATTERNS,
          [chunk_id |-> <<"pattern", u>>,
           type |-> "pattern",
           pattern_name |-> arguments.pattern_name,
           agent_sequence |-> arguments.agent_sequence,
           project_context |-> arguments.project_context,
           success_metrics |-> Get(arguments, "success_metrics", <<>>),
           tokens |-> 1 + Len(arguments.agent_sequence)])] :
      u \in Uuids }

RECURSIVE Extend(_)
\* all_recommendations.extend(obs.get('recommendations', [])) over the
\* observations
Extend(observations) ==
    IF observations = <<>> THEN <<>>
    ELSE Head(observations).recommendations \o Extend(Tail(observations))

TopRecommendations == 10
TopPatterns == 5

\* the patterns list of the insights: sorted by effectiveness, the first
\* five
PatternEffectiveness(patterns) ==
    LET scored == [i \in 1..Len(patterns) |->
                      [chunk |-> [pattern_name |-> patterns[i].pattern_name,
                                  effectiveness |-> Get(patterns[i].success_metrics,
                                                        "completion_rate", 0),
                                  agent_sequence |-> patterns[i].agent_sequence],
                       score |-> Get(patterns[i].success_metrics, "completion_rate", 0)]]
        top == UpTo(SortByScore(scored), TopPatterns)
    IN  [i \in 1..Len(top) |-> top[i].chunk]

\* list(set(...)) has the order of the set's iteration: the lists of
\* recommendations and of agent types are given as sets, and a cut of the
\* list is any subset of that size
generate_agent_insights(arguments) ==
    LET agent_type == Get(arguments, "agent_type", None)
        selected == agent_type \notin {None, ""}
        observations == IF selected
                        THEN SelectSeq(AGENT_OBSERVATIONS,
                                       LAMBDA obs : obs.agent_type = agent_type)
                        ELSE AGENT_OBSERVATIONS
        metrics == IF selected
                   THEN SelectSeq(AGENT_METRICS, LAMBDA m : m.agent_type = agent_type)
                   ELSE AGENT_METRICS
        extended == Extend(observations)
        all_recommendations == { extended[i] : i \in DOMAIN extended }
    IN  { Returns([summary |-> [total_observations |-> Len(observations),
                                total_metrics |-> Len(metrics),
                                total_patterns |-> Len(COORDINATION_PATTERNS),
                                agent_types |-> { observations[i].agent_type :
                                                  i \in DOMAIN observations }],
                   performance_trends |-> <<>>,
                   recommendations |-> top,
                   patterns |-> PatternEffectiveness(COORDINATION_PATTERNS)]) :
          top \in { s \in SUBSET all_recommendations :
                        Cardinality(s) = Min(Cardinality(all_recommendations),
                                             TopRecommendations) } }

\* tool(**arguments): the outcomes of the call
CallTool(tool, arguments) ==
    IF BindingRaises(tool, arguments) THEN { Raises("TypeError") }
    ELSE CASE tool = "search_documentation" -> search_documentation(arguments)
           [] tool = "store_agent_observation" -> store_agent_observation(arguments)
           [] tool = "search_agent_observations" -> search_agent_observations(arguments)
           [] tool = "store_agent_metric" -> store_agent_metric(arguments)
           [] tool = "analyze_coordination_patterns" ->
                  analyze_coordination_patterns(arguments)
           [] tool = "generate_agent_insights" -> generate_agent_insights(arguments)

\* handle_request(request_data): None for the notification, otherwise the
\* last_response dict; the text of a result is the JSON text of the value
HandleRequest(request_data) ==
    LET method == Get(request_data, "method", None)
        params == Get(request_data, "params", <<>>)
        request_id == Get(request_data, "id", None)
        Error(code, message) ==
            [jsonrpc |-> "2.0", id |-> request_id,
             error |-> [code |-> code, message |-> message]]
        Result(value) ==
            [jsonrpc |-> "2.0", id |-> request_id, result |-> value]
        tool_name == Get(params, "name", None)
        arguments == Get(params, "arguments", <<>>)
    IN  CASE method = "initialize" ->
                 { Returns(Result([protocolVersion |-> "2024-11-05",
                                   capabilities |-> [tools |-> <<>>],
                                   serverInfo |-> [name |-> "vector-search",
                                                   version |-> "1.0.0"]])) }
          [] method = "initialized" -> { [Returns(None) EXCEPT !.how = "None"] }
          [] method = "tools/list" -> { Returns(Result([tools |-> ToolNames])) }
          [] method = "tools/call" /\ tool_name \in ToolNames ->
                 { IF out.how = "raised"
                   THEN [out EXCEPT !.how = "returned",
                                    !.value = Error(-32603, <<"Internal error", out.value>>)]
                   ELSE [out EXCEPT !.value =
                            Result([content |-> <<[type |-> "text",
                                                   text |-> IF tool_name = "store_agent_observation"
                                                            THEN [observation_id |-> out.value,
                                                                  status |-> "stored"]
                                                            ELSE IF tool_name = "store_agent_metric"
                                                            THEN [metric_id |-> out.value,
                                                                  status |-> "stored"]
                                                            ELSE out.value]>>])] :
                   out \in CallTool(tool_name, arguments) }
          [] OTHER -> { Returns(Error(-32601, <<"Method not found", method>>)) }

AgentTypes == {"backend", "frontend"}

\* the keyword arguments of the calls
ObservationArguments ==
    LET required == { [agent_type |-> a, task_id |-> "task_1", project_id |-> "webapp_v2",
                       category |-> "implementation",
                       content |-> IF a = "backend" THEN <<"auth", "setup">>
                                   ELSE <<"oauth", "hooks">>,
                       observation_data |-> <<>>, analysis |-> <<"auth">>] :
                      a \in AgentTypes }
    IN  required
        \cup { [agent_type |-> r.agent_type, task_id |-> r.task_id,
                project_id |-> r.project_id, category |-> r.category,
                content |-> r.content, observation_data |-> r.observation_data,
                analysis |-> r.analysis,
                recommendations |-> <<"add tests", "cache tokens">>] : r \in required }

MetricArguments ==
    { [agent_type |-> a, metric_type |-> "latency", project_id |-> "webapp_v2",
       measurements |-> <<>>] : a \in AgentTypes }

PatternArguments ==
    { [agent_sequence |-> <<"backend", "frontend">>, pattern_name |-> "sequential",
       project_context |-> "webapp"] }
    \cup { [agent_sequence |-> <<"backend", "frontend">>, pattern_name |-> "sequential",
            project_context |-> "webapp", success_metrics |-> [completion_rate |-> rate]] :
           rate \in {80, 100} }

Queries == { <<"auth">>, <<"hooks", "auth">> }

SearchArguments ==
    { [query |-> q] : q \in Queries }
    \cup { [query |-> <<"auth">>, limit |-> 1],
           [query |-> <<"auth">>, agent_type |-> "backend"] }

InsightsArguments ==
    { <<>>, [agent_type |-> "backend"], [project_id |-> "webapp_v2"] }

\* the arguments a tool is called with: those written for it, none, and
\* a project_id alone
Arguments(tool) ==
    { <<>>, [project_id |-> "webapp_v2"] }
    \cup CASE tool \in {"search_documentation", "search_agent_observations"} ->
                  SearchArguments
            [] tool = "store_agent_observation" -> ObservationArguments
            [] tool = "store_agent_metric" -> MetricArguments
            [] tool = "analyze_coordination_patterns" -> PatternArguments
            [] OTHER -> InsightsArguments

Methods == {"initialize", "initialized", "tools/list", "tools/call", "resources/list"}

RequestIds == {70}

\* the requests: a notification has no id, and a request may leave its
\* params or the arguments of the call out
RequestData ==
    LET params == UNION { { [name |-> n, arguments |-> a] : a \in Arguments(n) } :
                          n \in ToolNames \cup {"invalid_tool_name"} }
                  \cup { [name |-> n] : n \in ToolNames \cup {"invalid_tool_name"} }
    IN  { [jsonrpc |-> "2.0", method |-> m] : m \in Methods }
        \cup { [jsonrpc |-> "2.0", id |-> i, method |-> m] : i \in RequestIds, m \in Methods }
        \cup { [jsonrpc |-> "2.0", id |-> i, method |-> "tools/call", params |-> p] :
               i \in RequestIds, p \in params }

\* the stores grow without limit; the model stops storing at MaxStored
Leaves(out) ==
    /\ Len(out.AGENT_OBSERVATIONS) + Len(out.AGENT_METRICS) + Len(out.COORDINATION_PATTERNS)
           <= MaxStored
    /\ DATABASE' = out.DATABASE
    /\ AGENT_OBSERVATIONS' = out.AGENT_OBSERVATIONS
    /\ AGENT_METRICS' = out.AGENT_METRICS
    /\ COORDINATION_PATTERNS' = out.COORDINATION_PATTERNS
    /\ last_response' = [how |-> out.how, value |-> out.value]

\* one line of stdin handled by the loop of main
handle_request ==
    \E request_data \in RequestData :
        /\ request' = [call |-> "handle_request", tool |-> None, data |-> request_data]
        /\ \E out \in HandleRequest(request_data) : Leaves(out)
        /\ UNCHANGED <<svars, cvars, kvars, ovars, pvars, xvars>>

\* a tool function called as the tests call it: tool(**arguments)
call_tool ==
    \E tool \in ToolNames : \E arguments \in Arguments(tool) :
        /\ request' = [call |-> "tool", tool |-> tool, data |-> arguments]
        /\ \E out \in CallTool(tool, arguments) : Leaves(out)
        /\ UNCHANGED <<svars, cvars, kvars, ovars, pvars, xvars>>

\* the module after import: the globals of simple_server.py
VectorServerIdle ==
    /\ DATABASE = None
    /\ AGENT_OBSERVATIONS = <<>>
    /\ AGENT_METRICS = <<>>
    /\ COORDINATION_PATTERNS = <<>>
    /\ request = [call |-> "none", tool |-> None, data |-> <<>>]
    /\ last_response = [how |-> "none", value |-> None]

VectorServerNext ==
    \/ handle_request
    \/ call_tool

(***************************************************************************)
(* doc-tools/DocScraper.py: DocumentationScraper.scrape_documentation.     *)
(*                                                                         *)
(* A URL is a string; the pages of the site are Pages, and what a page     *)
(* links to is site[page].  The steps are the stretches of the coroutine   *)
(* between two awaits: another task of the event loop, such as the one     *)
(* that sets should_stop, runs only between them.                          *)
(***************************************************************************)
Pages == {"https://docs.site/", "https://docs.site/a", "https://docs.site/b"}

StartUrl == "https://docs.site/"

\* the absolute URLs of the href attributes a page may hold
Hrefs == Pages \cup {"https://docs.site/a#top", "https://docs.site/api/keys",
                     "https://other.site/"}

\* _is_valid_doc_url: the domain of start_url, and none of skip_patterns
IsValidDocUrl(url) == url \in Pages

\* _extract_internal_links: the valid links, as a set
ExtractInternalLinks(hrefs) == { url \in hrefs : IsValidDocUrl(url) }

LinkSets ==
    (SUBSET Pages)
    \cup { {"https://docs.site/a#top"}, {"https://docs.site/api/keys", "https://docs.site/b"},
           {"https://other.site/", "https://docs.site/a"} }

\* the batch size of scrape_documentation
BatchSize == 10

ScraperIdle ==
    /\ site = [page \in Pages |-> {}]
    /\ max_pages = 0
    /\ visited_urls = {}
    /\ failed_urls = {}
    /\ urls_to_crawl = {}
    /\ should_stop = FALSE
    /\ tasks = <<>>
    /\ saved_pages = {}
    /\ scrape_summary = None
    /\ spc = "idle"

\* the call, up to the first test of the while loop
scrape_documentation ==
    /\ spc = "idle"
    /\ site' \in [Pages -> LinkSets]
    /\ max_pages' \in 0..MaxPages
    /\ urls_to_crawl' = {StartUrl}
    /\ visited_urls' = {}
    /\ spc' = "loop"
    /\ UNCHANGED <<failed_urls, should_stop, tasks, saved_pages, scrape_summary>>
    /\ UNCHANGED <<svars, cvars, kvars, ovars, pvars, vvars>>

\* the crawl summary written after the loop
ScrapeSummary ==
    [start_url |-> StartUrl, total_pages_scraped |-> Cardinality(visited_urls),
     failed_urls |-> failed_urls, visited_urls |-> visited_urls]

\* the test of the while loop and the loop body up to asyncio.gather: the
\* batch is the first batch_size elements of list(urls_to_crawl), whose
\* order is the set's iteration order, and the tasks are in the iteration
\* order of current_batch
start_batch ==
    /\ spc = "loop"
    /\ IF urls_to_crawl # {} /\ Cardinality(visited_urls) < max_pages /\ ~should_stop
       THEN \E batch \in SUBSET urls_to_crawl :
                /\ Cardinality(batch) = Min(BatchSize, Cardinality(urls_to_crawl))
                /\ urls_to_crawl' = urls_to_crawl \ batch
                /\ LET current_batch == { url \in batch : url \notin visited_urls }
                   IN  IF current_batch = {}
                       THEN /\ tasks' = <<>>
                            /\ spc' = "loop"
                       ELSE /\ \E order \in OrdersOf(current_batch) :
                                   tasks' = [i \in DOMAIN order |->
                                                [url |-> order[i], state |-> "pending",
                                                 links |-> {}]]
                            /\ spc' = "gather"
                /\ UNCHANGED scrape_summary
       ELSE /\ scrape_summary' = ScrapeSummary
            /\ spc' = "done"
            /\ UNCHANGED <<urls_to_crawl, tasks>>
    /\ UNCHANGED <<site, max_pages, visited_urls, failed_urls, should_stop, saved_pages>>
    /\ UNCHANGED <<svars, cvars, kvars, ovars, pvars, vvars>>

\* one task of the batch runs scrape_page to its end: the crawl fails, or
\* the page is saved_pages and its links are returned
scrape_page ==
    /\ spc = "gather"
    /\ \E i \in DOMAIN tasks :
           /\ tasks[i].state = "pending"
           /\ \/ /\ tasks' = [tasks EXCEPT ![i].state = "None"]
                 /\ failed_urls' = failed_urls \cup {tasks[i].url}
                 /\ UNCHANGED saved_pages
              \/ /\ tasks' = [tasks EXCEPT ![i].state = "result",
                                           ![i].links = ExtractInternalLinks(site[tasks[i].url])]
                 /\ saved_pages' = saved_pages \cup {tasks[i].url}
                 /\ UNCHANGED failed_urls
    /\ UNCHANGED <<site, max_pages, visited_urls, urls_to_crawl, should_stop, scrape_summary,
                   spc>>
    /\ UNCHANGED <<svars, cvars, kvars, ovars, pvars, vvars>>

RECURSIVE ProcessResults(_, _, _)
\* the loop over results: visited_urls and urls_to_crawl after it
ProcessResults(results, visited, queue) ==
    IF results = <<>> THEN [visited_urls |-> visited, urls_to_crawl |-> queue]
    ELSE LET result == Head(results)
         IN  IF result.state = "result" /\ ~should_stop
             THEN LET seen == visited \cup {result.url}
                  IN  ProcessResults(Tail(results), seen,
                                     queue \cup { link \in result.links :
                                                      link \notin seen /\ link \notin failed_urls })
             ELSE ProcessResults(Tail(results), visited, queue)

\* asyncio.gather returns: the results are processed, and the loop stops
\* or sleeps
process_results ==
    /\ spc = "gather"
    /\ \A i \in DOMAIN tasks : tasks[i].state # "pending"
    /\ LET after == ProcessResults(tasks, visited_urls, urls_to_crawl)
       IN  /\ visited_urls' = after.visited_urls
           /\ urls_to_crawl' = after.urls_to_crawl
           /\ IF should_stop
              THEN /\ scrape_summary' = [ScrapeSummary EXCEPT
                                            !.total_pages_scraped = Cardinality(after.visited_urls),
                                            !.visited_urls = after.visited_urls]
                   /\ spc' = "done"
              ELSE /\ spc' = "loop"
                   /\ UNCHANGED scrape_summary
    /\ tasks' = <<>>
    /\ UNCHANGED <<site, max_pages, failed_urls, should_stop, saved_pages>>
    /\ UNCHANGED <<svars, cvars, kvars, ovars, pvars, vvars>>

\* another task sets scraper.should_stop while the coroutine awaits
stop ==
    /\ spc \in {"loop", "gather"}
    /\ ~should_stop
    /\ should_stop' = TRUE
    /\ UNCHANGED <<site, max_pages, visited_urls, failed_urls, urls_to_crawl, tasks, saved_pages,
                   scrape_summary, spc>>
    /\ UNCHANGED <<svars, cvars, kvars, ovars, pvars, vvars>>

ScraperNext ==
    \/ scrape_documentation
    \/ start_batch
    \/ scrape_page
    \/ process_results
    \/ stop

(***************************************************************************)
(* Initial states: the objects after construction.                         *)
(***************************************************************************)
DefaultChunkSize == 1000
DefaultChunkOverlap == 200

StructurerIdle ==
    /\ sdoc = <<>>
    /\ smeta = EmptyMeta
    /\ chunks = <<>>
    /\ structured = FALSE

CleanerIdle ==
    /\ raw = <<>>
    /\ preserve_structure = TRUE
    /\ cleaned = <<>>
    /\ clean_done = FALSE

SorterIdle ==
    /\ documents = <<>>
    /\ dep_graph = {}
    /\ sorted_docs = <<>>
    /\ sort_pc = "idle"

\* DocumentPostProcessor.__init__: self.processed_docs = []
PipelineIdle ==
    /\ recursive = TRUE
    /\ flatten_output = TRUE
    /\ md_files = <<>>
    /\ next_file = 0
    /\ processed_docs = <<>>
    /\ source_folders = <<>>
    /\ errors = <<>>
    /\ ppc = "idle"
    /\ summary = [total_documents |-> 0, total_chunks |-> 0, categories |-> EmptyMeta,
                  source_folders |-> <<>>, documents |-> <<>>]
    /\ written = <<>>
    /\ vector_index = <<>>
    /\ calls = 0

ClassifierIdle ==
    /\ doc_title = Str(<<>>)
    /\ doc_url = Str(<<>>)
    /\ cpc = "idle"
    /\ attempt = 0
    /\ api_calls = 0
    /\ last_outcome = "none"
    /\ via = "none"
    /\ category = "none"

\* DocumentStructurer(chunk_size, chunk_overlap)
StructurerInit ==
    /\ chunk_size \in 1..MaxChunkSize
    /\ chunk_overlap \in 0..MaxChunkOverlap
    /\ StructurerIdle
    /\ CleanerIdle
    /\ has_client = FALSE
    /\ ClassifierIdle
    /\ SorterIdle
    /\ PipelineIdle
    /\ VectorServerIdle
    /\ ScraperIdle

\* DocumentCleaner()
CleanerInit ==
    /\ chunk_size = DefaultChunkSize
    /\ chunk_overlap = DefaultChunkOverlap
    /\ StructurerIdle
    /\ CleanerIdle
    /\ has_client = FALSE
    /\ ClassifierIdle
    /\ SorterIdle
    /\ PipelineIdle
    /\ VectorServerIdle
    /\ ScraperIdle

\* DocumentSorter(api_key)
SorterInit ==
    /\ chunk_size = DefaultChunkSize
    /\ chunk_overlap = DefaultChunkOverlap
    /\ StructurerIdle
    /\ CleanerIdle
    /\ has_client \in BOOLEAN
    /\ ClassifierIdle
    /\ SorterIdle
    /\ PipelineIdle
    /\ VectorServerIdle
    /\ ScraperIdle

ClassifierNext ==
    \/ classify_document
    \/ attempt_without_client
    \/ attempt_call_api
    \/ api_responds
    \/ api_raises
    \/ retry
    \/ retry_error

SpecStructurer == StructurerInit /\ [][structure_document]_vars

SpecCleaner == CleanerInit /\ [][clean_document]_vars

SpecClassifier == SorterInit /\ [][ClassifierNext]_vars

SpecSorter == SorterInit /\ [][sort_documents]_vars

PipelineNext ==
    \/ process_all_documents
    \/ process_document
    \/ sort_processed_docs
    \/ save_processed_documents

\* DocumentPostProcessor(input_dir, output_dir, api_key)
SpecPipeline == SorterInit /\ [][PipelineNext]_vars

\* one DocumentPostProcessor whose process_all_documents is called up to
\* MaxCalls times
SpecRepeat == SorterInit /\ [][PipelineNext \/ process_all_documents_again]_vars

\* the server process of simple_server.py
SpecVectorServer == CleanerInit /\ [][VectorServerNext]_vars

\* DocumentationScraper(output_dir)
SpecScraper == CleanerInit /\ [][ScraperNext]_vars

(***************************************************************************)
(* Properties of the structurer.  They are stated for the documents the    *)
(* pipeline hands to structure_document: non-empty texts that              *)
(* clean_document leaves as they are.                                      *)
(***************************************************************************)
IsCleaned(doc) == doc # <<>> /\ CleanDocument(doc, TRUE) = doc

Range(f) == { f[i] : i \in DOMAIN f }

ChunkWordsOf(k) == SplitWords(chunks[k].content)

DocLines == SplitOn(sdoc, NL)

\* C1: the position values of a document's chunks, read in list order, are
\* exactly 0, 1, ..., N-1, whatever the number of sections and code blocks.
C1_PositionsContiguous ==
    (structured /\ IsCleaned(sdoc)) =>
        \A k \in 1..Len(chunks) : chunks[k].position = k - 1

\* C2: each fenced code block of the document occurs in exactly one chunk;
\* that chunk has type "code" and the block as its content, and no other
\* chunk contains the block's text.
C2_CodeBlockInOneChunk ==
    (structured /\ IsCleaned(sdoc)) =>
        LET blocks == FindCodeBlocks(sdoc)
        IN  \A b \in 1..Len(blocks) :
              \E k \in 1..Len(chunks) :
                 /\ chunks[k].metadata.type = "code"
                 /\ chunks[k].content = blocks[b]
                 /\ \A j \in (1..Len(chunks)) \ {k} :
                       ~Contains(chunks[j].content, blocks[b])

\* C3: clean_document with preserve_structure=True returns every fenced code
\* block of its input unchanged: each block of the input occurs, atom for
\* atom, in the returned text.
C3_CodeBlocksUnchanged ==
    (clean_done /\ preserve_structure) =>
        LET blocks == FindCodeBlocks(raw)
        IN  \A b \in 1..Len(blocks) : Contains(cleaned, blocks[b])

PlainSection ==
    /\ \A i \in 1..Len(sdoc) : sdoc[i] # FENCE
    /\ \A l \in 1..Len(DocLines) : HeaderLevel(DocLines[l]) = 0

\* C4: for a section of plain-text words, chunk_size S >= 1 and
\* chunk_overlap O with 0 <= O < S, a text chunk is closed exactly when it
\* holds S words, and every chunk after the first is the last O words of the
\* chunk before it followed by the next words of the section: chunk k is
\* words 1 + (k-1)(S-O) .. (k-1)(S-O) + S of the section (fewer at the end).
C4_OverlapChunks ==
    (structured /\ IsCleaned(sdoc) /\ PlainSection /\ chunk_overlap < chunk_size) =>
        LET W == SplitWords(sdoc)
            first(k) == 1 + (k - 1) * (chunk_size - chunk_overlap)
        IN  \A k \in 1..Len(chunks) :
              ChunkWordsOf(k) = SubSeq(W, first(k), Min(first(k) + chunk_size - 1, Len(W)))

\* C5: every whitespace-delimited word of the cleaned text, the words of
\* header lines included, appears in the content of at least one chunk.
C5_EveryWordInSomeChunk ==
    (structured /\ IsCleaned(sdoc)) =>
        \A w \in Range(SplitWords(sdoc)) :
            \E k \in 1..Len(chunks) : w \in Range(ChunkWordsOf(k))

\* C6: the tokens field of every chunk equals the number of
\* whitespace-separated words of the chunk's content.
C6_TokensAreWordCount ==
    (structured /\ IsCleaned(sdoc)) =>
        \A k \in 1..Len(chunks) : chunks[k].tokens = Len(ChunkWordsOf(k))

LineOfAtom(a) == CHOOSE l \in 1..Len(DocLines) : a \in Range(DocLines[l])

EnclosingLevel(a) ==
    LET headers == { j \in 1..(LineOfAtom(a) - 1) : HeaderLevel(DocLines[j]) # 0 }
    IN  IF headers = {} THEN 0
        ELSE HeaderLevel(DocLines[CHOOSE j \in headers : \A h \in headers : h <= j])

\* C7: every chunk's metadata carries section_level and section_title; they
\* are 0 and "Introduction" for content that precedes the first header, and
\* section_level is the depth of the nearest preceding header line otherwise.
C7_SectionMetadata ==
    (structured /\ IsCleaned(sdoc)) =>
        \A k \in 1..Len(chunks) :
            /\ "section_level" \in DOMAIN chunks[k].metadata
            /\ "section_title" \in DOMAIN chunks[k].metadata
            /\ \A a \in { x \in Range(chunks[k].content) : x > 0 } :
                  /\ chunks[k].metadata.section_level = EnclosingLevel(a)
                  /\ EnclosingLevel(a) = 0 =>
                        chunks[k].metadata.section_title = <<INTRO>>

(***************************************************************************)
(* Properties of the classifier.                                           *)
(***************************************************************************)
\* C8: for every document and every outcome of the external classifier,
\* classify_document returns one of the seven labels and never raises.
C8_CategoryClosure ==
    /\ cpc # "raised"
    /\ cpc = "returned" => category \in
          {"getting_started", "concepts", "guides", "api_reference", "examples",
           "advanced", "troubleshooting"}

\* C9: when the external call raises, the call is attempted again, and the
\* rule-based category is returned only after the third call has failed.
C9_RetryBeforeFallback ==
    (cpc = "returned" /\ last_outcome = "exception") => api_calls = 3

ClaimedPriority ==
    <<"getting_started", "concepts", "guides", "api_reference", "examples",
      "advanced", "troubleshooting">>

SameLetter(a, b) ==
    \/ a = b
    \/ \E i \in 1..Len(UpperCase) : {a, b} = {UpperCase[i], LowerCase[i]}

OccursIgnoringCase(keyword, text) ==
    \E i \in 1..(Len(text) - Len(keyword) + 1) :
        \A j \in 1..Len(keyword) : SameLetter(text[i + j - 1], keyword[j])

MatchingKeywords(c) ==
    { j \in 1..Len(Keywords[c]) :
        \/ OccursIgnoringCase(Keywords[c][j], doc_title.chars)
        \/ OccursIgnoringCase(Keywords[c][j], doc_url.chars) }

\* C10: the rule-based classifier returns the first category, in the fixed
\* order, that has a keyword occurring case-insensitively in the title or
\* the URL, however many keywords of later categories occur, and guides when
\* no keyword occurs.
C10_FirstCategoryWins ==
    (cpc = "returned" /\ via = "rule") =>
        LET hits == { i \in 1..Len(ClaimedPriority) :
                        MatchingKeywords(ClaimedPriority[i]) # {} }
        IN  IF hits = {} THEN category = "guides"
            ELSE category = ClaimedPriority[CHOOSE i \in hits : \A h \in hits : i <= h]

\* a document that hits one keyword of getting_started and two of
\* api_reference was classified by the rules
C10_Witness ==
    /\ cpc = "returned"
    /\ via = "rule"
    /\ category = "getting_started"
    /\ Cardinality(MatchingKeywords("getting_started")) = 1
    /\ Cardinality(MatchingKeywords("api_reference")) >= 2

(***************************************************************************)
(* Properties of sort_documents.                                           *)
(***************************************************************************)
SortedFiles == [k \in 1..Len(sorted_docs) |-> sorted_docs[k].file_path]

ArrivalOf(file_path) == CHOOSE i \in 1..Len(documents) : documents[i].file_path = file_path

\* A's chunk contents, joined by single spaces, contain D's URL or D's title
ReferencedBy(D, A) ==
    LET text == JoinWith([k \in 1..Len(A.chunks) |-> A.chunks[k].content], SP)
        HasText(chars) ==
            \E i \in 1..(Len(text) + 1) :
                /\ i + Len(chars) - 1 <= Len(text)
                /\ \A j \in 1..Len(chars) : text[i + j - 1] = CharAtom(chars[j])
    IN  HasText(D.original_url.chars) \/ HasText(D.title.chars)

\* C12: after sort_documents, the dependencies of every document D are
\* exactly the file paths of the other documents whose chunk contents
\* contain D's original URL or D's title, each listed once: the documents
\* that reference D, not the documents D references.
C12_DependenciesArePredecessors ==
    sort_pc = "returned" =>
        \A k \in 1..Len(sorted_docs) :
            LET D == sorted_docs[k]
            IN  /\ Range(D.dependencies) =
                     { documents[i].file_path :
                         i \in { x \in 1..Len(documents) :
                                   /\ documents[x].file_path # D.file_path
                                   /\ ReferencedBy(D, documents[x]) } }
                /\ Cardinality(Range(D.dependencies)) = Len(D.dependencies)

\* a document that is referenced by a document it does not reference
C12_Witness ==
    /\ sort_pc = "returned"
    /\ \E i, j \in 1..Len(documents) :
          /\ i # j
          /\ documents[j].file_path \in Range(documents[i].dependencies)
          /\ documents[i].file_path \notin Range(documents[j].dependencies)
          /\ ReferencedBy(documents[i], documents[j])
          /\ ~ReferencedBy(documents[j], documents[i])

\* C13: the list sort_documents returns is a permutation of the list it was
\* given: every document passed in appears exactly once in the result,
\* whether the reference graph is acyclic or cyclic and whatever the
\* categories are.
C13_ResultIsPermutation ==
    sort_pc = "returned" =>
        /\ Len(sorted_docs) = Len(documents)
        /\ \A i \in 1..Len(documents) :
              Cardinality({ k \in 1..Len(sorted_docs) : sorted_docs[k] = documents[i] }) = 1

\* two documents of one category that reference each other, returned in an
\* order that is not the order of arrival
C13_Witness ==
    /\ sort_pc = "returned"
    /\ Len(documents) >= 2
    /\ sorted_docs # documents
    /\ \E i, j \in 1..Len(documents) :
          /\ documents[i].category = documents[j].category
          /\ <<documents[i].file_path, documents[j].file_path>> \in dep_graph
          /\ <<documents[j].file_path, documents[i].file_path>> \in dep_graph

RECURSIVE Closure(_, _)
Closure(R, n) ==
    IF n = 0 THEN R
    ELSE Closure(R \cup { <<e[1], f[2]>> : <<e, f>> \in { p \in R \X R : p[1][2] = p[2][1] } },
                 n - 1)

FilesOfCategory(c) ==
    { documents[i].file_path : i \in { x \in 1..Len(documents) : documents[x].category = c } }

\* the reference graph restricted to the files of category c has a cycle
BucketHasCycle(c) ==
    LET files == FilesOfCategory(c)
        induced == { e \in dep_graph : e[1] \in files /\ e[2] \in files }
    IN  \E x \in files : <<x, x>> \in Closure(induced, Cardinality(files))

ScoreOf(d) == d.complexity_score

SameScore(a, b) == ScoreOf(a)[1] * ScoreOf(b)[2] = ScoreOf(b)[1] * ScoreOf(a)[2]

LowerScore(a, b) == ScoreOf(a)[1] * ScoreOf(b)[2] < ScoreOf(b)[1] * ScoreOf(a)[2]

\* C14: a cycle among the documents of one category does not make
\* sort_documents raise, and the documents of that category come out in the
\* baseline order: ascending complexity score, equal scores in order of
\* arrival, each document once.
C14_CycleKeepsBaselineOrder ==
    /\ sort_pc = "raised" =>
          \E i \in 1..Len(documents) :
              ~documents[i].title.isstr \/ ~documents[i].original_url.isstr
    /\ sort_pc = "returned" =>
          \A c \in Categories :
              BucketHasCycle(c) =>
                  /\ \A f \in FilesOfCategory(c) :
                        Cardinality({ k \in 1..Len(sorted_docs) : SortedFiles[k] = f }) = 1
                  /\ \A p, q \in 1..Len(sorted_docs) :
                        (/\ p < q
                         /\ sorted_docs[p].category = c
                         /\ sorted_docs[q].category = c)
                        => \/ LowerScore(sorted_docs[p], sorted_docs[q])
                           \/ /\ SameScore(sorted_docs[p], sorted_docs[q])
                              /\ ArrivalOf(SortedFiles[p]) < ArrivalOf(SortedFiles[q])

\* two documents of one category reference each other, and the one that
\* arrived later has the lower score and is returned first
C14_Witness ==
    /\ sort_pc = "returned"
    /\ \E c \in Categories :
          /\ BucketHasCycle(c)
          /\ \E p, q \in 1..Len(sorted_docs) :
                /\ p < q
                /\ sorted_docs[p].category = c
                /\ sorted_docs[q].category = c
                /\ LowerScore(sorted_docs[p], sorted_docs[q])
                /\ ArrivalOf(SortedFiles[p]) > ArrivalOf(SortedFiles[q])

PriorityOf(c) == CHOOSE i \in 1..Len(ClaimedPriority) : ClaimedPriority[i] = c

\* C15: in the list sort_documents returns, of two documents with different
\* categories the one whose category is earlier in getting_started,
\* concepts, guides, api_reference, examples, advanced, troubleshooting
\* comes first.
C15_GroupedByCategory ==
    sort_pc = "returned" =>
        \A p, q \in 1..Len(sorted_docs) :
            PriorityOf(sorted_docs[p].category) < PriorityOf(sorted_docs[q].category)
                => p < q

\* a document of a later category arrived first, references nothing, and is
\* referenced by the document of the earlier category that is returned
\* before it
C15_Witness ==
    /\ sort_pc = "returned"
    /\ \E i, j \in 1..Len(documents) :
          /\ i < j
          /\ PriorityOf(documents[j].category) < PriorityOf(documents[i].category)
          /\ <<documents[i].file_path, documents[j].file_path>> \in dep_graph
          /\ <<documents[j].file_path, documents[i].file_path>> \notin dep_graph
          /\ \E p, q \in 1..Len(sorted_docs) :
                /\ p < q
                /\ sorted_docs[p] = documents[j]
                /\ sorted_docs[q] = documents[i]

\* the words of a text, a fenced code block counted as one word
WordsWithBlocksAsOne(text) ==
    SplitWords(HideCodeBlocks(text, FindCodeBlocks(text), 1))

\* C24: for every chunk_size S >= 1 and every chunk_overlap O >= 0, every
\* chunk of type text holds at most S words, a code block counted as one
\* word.
C24_TextChunkWithinChunkSize ==
    (structured /\ IsCleaned(sdoc)) =>
        \A k \in 1..Len(chunks) :
            chunks[k].metadata["type"] = "text"
                => Len(WordsWithBlocksAsOne(chunks[k].content)) <= chunk_size

\* C25: every text chunk of a section of plain words holds a word that no
\* earlier chunk holds: no chunk is made of carried-over overlap words only.
C25_EveryChunkBringsAWord ==
    (structured /\ IsCleaned(sdoc) /\ PlainSection) =>
        \A k \in 1..Len(chunks) :
            \E w \in Range(chunks[k].content) :
                /\ w > 0
                /\ \A m \in 1..(k - 1) : w \notin Range(chunks[m].content)

\* the place of a file in the list sort_documents returned
PlaceOf(file_path) == CHOOSE k \in 1..Len(sorted_docs) : SortedFiles[k] = file_path

OccursNonEmpty(chars, A) ==
    LET text == JoinWith([k \in 1..Len(A.chunks) |-> A.chunks[k].content], SP)
    IN  /\ chars # <<>>
        /\ \E i \in 1..Len(text) :
              /\ i + Len(chars) - 1 <= Len(text)
              /\ \A j \in 1..Len(chars) : text[i + j - 1] = CharAtom(chars[j])

\* C26: a document B with an empty original_url has an edge A -> B in the
\* reference graph only if B's title is not empty and occurs in A's
\* content.
C26_EmptyUrlMakesNoEdge ==
    sort_pc = "returned" =>
        \A a, b \in 1..Len(documents) :
            (/\ <<documents[a].file_path, documents[b].file_path>> \in dep_graph
             /\ documents[b].original_url.chars = <<>>)
            => OccursNonEmpty(documents[b].title.chars, documents[a])

\* the reference graph has no edge between two files of category c
BucketHasNoEdges(c) ==
    \A e \in dep_graph : ~(e[1] \in FilesOfCategory(c) /\ e[2] \in FilesOfCategory(c))

\* C27: the documents of a category without reference edges among them are
\* returned in ascending order of complexity_score.
C27_BaselineOrderSurvives ==
    sort_pc = "returned" =>
        \A c \in Categories :
            BucketHasNoEdges(c) =>
                \A p, q \in 1..Len(sorted_docs) :
                    (/\ p < q
                     /\ sorted_docs[p].category = c
                     /\ sorted_docs[q].category = c)
                    => ~LowerScore(sorted_docs[q], sorted_docs[p])

(***************************************************************************)
(* Properties of the pipeline.                                             *)
(***************************************************************************)
SummaryOf(file_path) ==
    { k \in 1..Len(summary.documents) : summary.documents[k].original = file_path }

\* the run over a.md = "# Intro\nShort" and b.md = the same body behind the
\* frontmatter `title: Getting Started`, without a client, has returned
EndToEndScenario ==
    /\ ppc = "returned"
    /\ ~has_client
    /\ md_files = << InputFile(<<>>, <<"a">>, TRUE, IntroShort),
                     InputFile(<<>>, <<"b">>, TRUE,
                               Frontmatter(TitleLine \o <<NL>>) \o IntroShort) >>

\* C11 as the specification states it: in the end-to-end scenario both
\* documents are classified getting_started.
C11_BothGettingStarted ==
    EndToEndScenario =>
        /\ summary.total_documents = 2
        /\ \A k \in 1..Len(summary.documents) :
              summary.documents[k].category = "getting_started"

\* C11: in the end-to-end scenario (a.md without frontmatter, b.md with the
\* frontmatter title "Getting Started", no client) both documents are
\* processed and both are classified guides, the default: the title of a.md
\* is its file stem "a", and neither title contains a keyword.
C11_BothGuides ==
    EndToEndScenario =>
        /\ summary.total_documents = 2
        /\ \A k \in 1..Len(summary.documents) : summary.documents[k].category = "guides"
        /\ \E k \in SummaryOf([folder |-> <<>>, stem |-> <<"a">>]) :
              summary.documents[k].title = Str(<<"a">>)
        /\ \E k \in SummaryOf([folder |-> <<>>, stem |-> <<"b">>]) :
              summary.documents[k].title = Str(GettingStarted)

\* the end-to-end scenario has run and its summary lists both files
C11_Witness ==
    /\ EndToEndScenario
    /\ Len(summary.documents) = 2
    /\ summary.total_chunks = 2

\* the text of a readable file is left with a body after cleaning
IsNonEmptyFile(f) ==
    /\ f.readable
    /\ Strip(CleanDocument(ExtractMetadata(f.content).body, TRUE)) # <<>>

\* C16: no input file can abort a run: whatever fails for one file,
\* process_all_documents returns, and its summary lists every non-empty
\* input file whose own processing did not fail.
C16_NoFileAbortsTheRun ==
    /\ ppc # "raised"
    /\ ppc = "returned" =>
          \A i \in 1..Len(md_files) :
              (/\ IsNonEmptyFile(md_files[i])
               /\ \A e \in 1..Len(errors) : errors[e] # md_files[i].file_path)
              => SummaryOf(md_files[i].file_path) # {}

\* the text has frontmatter that ends and holds at least one line, each
\* line a `key: value` pair
HasMappingFrontmatter(content) ==
    /\ content # <<>>
    /\ content[1] = DASHES
    /\ \E close \in 2..Len(content) :
          /\ content[close] = DASHES
          /\ \A k \in 2..(close - 1) : content[k] # DASHES
          /\ \E k \in 2..(close - 1) : ~IsSpace(content[k])
          /\ \A k \in 2..(close - 1) :
                (~IsSpace(content[k]) /\ content[k - 1] = NL)
                    => content[k] \in { 2000 + j : j \in 1..Len(YamlKeys) }

\* C17: extract_metadata always returns a mapping as metadata; for a text
\* without frontmatter, with unterminated or empty frontmatter, or with
\* frontmatter that is not a mapping, the metadata is the empty mapping and
\* the body is the whole text, and the file is processed like a file without
\* frontmatter instead of failing.
C17_ExtractMetadataFailsSoft ==
    \A i \in 1..Len(md_files) :
        LET f == md_files[i]
            em == ExtractMetadata(f.content)
        IN  /\ em.metadata.ismap
            /\ ~HasMappingFrontmatter(f.content) =>
                  /\ em.metadata = Mapping(EmptyMeta)
                  /\ em.body = f.content
                  /\ (f.readable /\ i < next_file) =>
                        \A e \in 1..Len(errors) : errors[e] # f.file_path

\* the files of the run that are left without a body
SkippedFiles ==
    { i \in 1..Len(md_files) :
        /\ md_files[i].readable
        /\ Strip(CleanDocument(ExtractMetadata(md_files[i].content).body, TRUE)) = <<>> }

FailedFiles ==
    { i \in 1..Len(md_files) : \E e \in 1..Len(errors) : errors[e] = md_files[i].file_path }

\* C18: a file whose body is empty or blank after frontmatter stripping and
\* cleaning is skipped: it is not listed in the summary's documents, not
\* counted in total_documents and has no entry in the vector index, and the
\* other files whose processing did not fail are listed.
C18_EmptyFilesAreSkipped ==
    ppc = "returned" =>
        /\ \A i \in SkippedFiles :
              /\ SummaryOf(md_files[i].file_path) = {}
              /\ \A k \in 1..Len(vector_index) :
                    vector_index[k].metadata.source_file # md_files[i].file_path
        /\ summary.total_documents =
              Cardinality((1..Len(md_files)) \ (SkippedFiles \cup FailedFiles))
        /\ \A i \in (1..Len(md_files)) \ (SkippedFiles \cup FailedFiles) :
              Cardinality(SummaryOf(md_files[i].file_path)) = 1

\* a file that holds frontmatter only was skipped, and another file of the run
\* is listed in the summary
C18_Witness ==
    /\ ppc = "returned"
    /\ \E i \in SkippedFiles : HasMappingFrontmatter(md_files[i].content)
    /\ \E i \in 1..Len(md_files) : SummaryOf(md_files[i].file_path) # {}

RECURSIVE ListedChunksBefore(_)
ListedChunksBefore(i) ==
    IF i <= 1 THEN 0 ELSE summary.documents[i - 1].chunks + ListedChunksBefore(i - 1)

\* C19: the vector index is the chunks of the documents in final document
\* order, the chunks of one document in their order; its length is the sum
\* of the chunk counts the summary lists and the summary's total_chunks.
C19_VectorIndexIsConcatenation ==
    ppc = "returned" =>
        /\ Len(summary.documents) = Len(processed_docs)
        /\ Len(vector_index) = ListedChunksBefore(Len(summary.documents) + 1)
        /\ Len(vector_index) = summary.total_chunks
        /\ \A i \in 1..Len(processed_docs) :
              /\ summary.documents[i].original = processed_docs[i].file_path
              /\ summary.documents[i].chunks = Len(processed_docs[i].chunks)
              /\ \A k \in 1..Len(processed_docs[i].chunks) :
                    LET entry == vector_index[ListedChunksBefore(i) + k]
                    IN  /\ entry.content = processed_docs[i].chunks[k].content
                        /\ entry.metadata.source_file = processed_docs[i].file_path
                        /\ entry.metadata["type"] = processed_docs[i].chunks[k].metadata["type"]

\* two documents were saved, the first with a code chunk and a text chunk
C19_Witness ==
    /\ ppc = "returned"
    /\ Len(processed_docs) = 2
    /\ Len(processed_docs[1].chunks) = 2
    /\ Len(processed_docs[2].chunks) = 1
    /\ Len(vector_index) = 3

\* C20: with flatten_output = False the cleaned file and the chunk
\* directory of every document are written below the document's subfolder
\* path relative to the input directory, named by index and stem.
C20_SubfoldersPreserved ==
    (ppc = "returned" /\ ~flatten_output) =>
        \A i \in 1..Len(processed_docs) :
            LET name == [index |-> i - 1, prefix |-> <<>>,
                         stem |-> processed_docs[i].file_path.stem]
            IN  /\ written[i].cleaned_path =
                     [dir |-> <<"cleaned">> \o processed_docs[i].file_path.folder,
                      name |-> name]
                /\ written[i].chunk_dir =
                     [dir |-> <<"chunks">> \o processed_docs[i].file_path.folder,
                      name |-> name]

\* C28: every document listed in the summary has at least one chunk.
C28_ListedDocumentsHaveChunks ==
    ppc = "returned" =>
        \A k \in 1..Len(summary.documents) : summary.documents[k].chunks >= 1

\* C29: whenever a call of process_all_documents on the object returns,
\* the first or a later one over the same files, the summary lists every
\* file that was neither skipped nor failed exactly once, and
\* total_documents is the number of those files.
C29_RepeatedCallDoesNotAccumulate ==
    ppc = "returned" =>
        /\ summary.total_documents =
              Cardinality((1..Len(md_files)) \ (SkippedFiles \cup FailedFiles))
        /\ \A i \in (1..Len(md_files)) \ (SkippedFiles \cup FailedFiles) :
              Cardinality(SummaryOf(md_files[i].file_path)) = 1

(***************************************************************************)
(* Properties of the vector server.                                        *)
(***************************************************************************)
\* the request handle_request was last called with names a tool that is
\* not registered
UnknownToolCalled ==
    /\ request.call = "handle_request"
    /\ Get(request.data, "method", None) = "tools/call"
    /\ "params" \in DOMAIN request.data
    /\ "name" \in DOMAIN request.data.params
    /\ request.data.params.name \notin ToolNames

\* C21: handle_request answers a tools/call request whose tool name is
\* not one of the six registered tools with an error response of code
\* -32603 whose id is the id of the request.
C21_UnknownToolIsInternalError ==
    UnknownToolCalled =>
        /\ last_response.how = "returned"
        /\ "error" \in DOMAIN last_response.value
        /\ last_response.value.error.code = -32603
        /\ last_response.value.id = request.data.id

\* generate_agent_insights(project_id=P) was the last call
InsightsCalledWithProjectId ==
    /\ request.call = "tool"
    /\ request.tool = "generate_agent_insights"
    /\ DOMAIN request.data = {"project_id"}

\* C22: generate_agent_insights(project_id=P) returns, after any stores,
\* insights whose summary reports total_observations, total_metrics and
\* total_patterns and whose recommendations hold those of the stored
\* observations.
C22_InsightsAcceptProjectId ==
    InsightsCalledWithProjectId =>
        /\ last_response.how = "returned"
        /\ {"total_observations", "total_metrics", "total_patterns"}
               \subseteq DOMAIN last_response.value.summary
        /\ (\E i \in DOMAIN AGENT_OBSERVATIONS : AGENT_OBSERVATIONS[i].recommendations # <<>>)
               => last_response.value.recommendations # {}

(***************************************************************************)
(* Properties of the scraper.                                              *)
(***************************************************************************)
\* C30: during and after scrape_documentation(start_url, max_pages),
\* visited_urls never holds more than max_pages pages.
C30_VisitedWithinMaxPages ==
    spc # "idle" => Cardinality(visited_urls) <= max_pages

====
